---- MODULE Spec2Model ----
(***************************************************************************)
(* A model of mltemplate: the tracking backend (MLflow) as the code sees   *)
(* it, the Registry wrapper, the Deployment server's loaded-model cache,   *)
(* the Training server's background task and the Discord bot's polling     *)
(* loop.                                                                   *)
(*                                                                         *)
(* Python None is the string NONE.  A Python dict is a sequence of         *)
(* records with distinct keys, in insertion order.  Accuracies are         *)
(* integers in hundredths (0.90 is 90, the -1.0 of the max key is -100).   *)
(***************************************************************************)
EXTENDS Integers, Sequences, FiniteSets, TLC

\* ------------------------------------------------------------------ bounds
\* Runs the tracking backend may hold.
MaxRuns == 2
\* Registry calls made by the request handlers.
MaxCalls == 3

\* ------------------------------------------------------------------ values
NONE == "None"

\* Registered model names (config.model.name of the training configs).
Names == {"mlp", "cnn"}

\* Experiment ids of the tracking backend: "0" is MLflow's "Default".
DefaultExperiment == "0"
ExperimentIds == {"0", "1", "2"}
ExperimentName(e) == IF e = "0" THEN "Default" ELSE IF e = "1" THEN "mnist" ELSE "cifar"

RunId(n) == "r" \o ToString(n)
RunIds == {RunId(n) : n \in 1..(MaxRuns + 1)}

Range(s) == {s[i] : i \in DOMAIN s}

VARIABLES
    \* ---- tracking backend (MLflow server)
    bExperiments,      \* set of experiment ids that exist
    bRuns,             \* runs in search_runs order (newest first)
    bVersions,         \* registered model versions in fetch order
    \* ---- Deployment server
    dsUp,              \* the DeploymentServer object has been constructed
    dsModels,          \* DeploymentServer.registry.models (snapshot)
    loaded_models,     \* DeploymentServer.loaded_models: key -> handle
    default_model,     \* DeploymentServer.default_model
    dsReq,             \* the last Deployment request and the backend it met
    dsResp,            \* the response to the last Deployment request
    everLoaded,        \* a load-model request has returned True
    \* ---- a Registry object shared by request handlers (GatewayServer.registry)
    models,            \* Registry.models
    experiments,       \* Registry.experiments: experiment id -> [name]
    modelsGen,         \* the refresh() call that assigned Registry.models
    experimentsGen,    \* the refresh() call that assigned Registry.experiments
    calls,             \* number of Registry calls made so far
    hpc,               \* per handler: its position in the Registry call
    hcall,             \* per handler: the call it makes and the state it met
    hret,              \* per handler: what its last call returned or raised
    \* ---- Training server
    tsTask,            \* per request_id: the background task [state, multirun]
    tsResp,            \* per request_id: the HTTP response of start_training_run
    tsLog,             \* request_ids whose background task logged and raised
    \* ---- Discord bot
    training_requests, \* DiscordClient.training_requests (request ids)
    tickPc,            \* position of check_training_jobs
    tickIdx,           \* index of the list iterator of its for loop
    tickExps,          \* experiment_ids of the Registry() it built
    tickCur,           \* the request whose completion it is announcing
    loopAlive,         \* the tasks.loop is still scheduled
    notified,          \* requests whose completion reply was sent
    tickOutstanding,   \* the requests in the list when the tick started
    tickChecked,       \* the requests the tick has looked up so far
    \* ---- connection clients
    clLast,            \* per client: its last call, the response and the outcome
    \* ---- Gateway server
    gwLoadedModels,    \* GatewayServer.loaded_models: key -> handle
    gwDefaultModel,    \* GatewayServer.default_model
    gwReq,             \* the last request to a model-serving Gateway route
    gwResp,            \* the response to it
    \* ---- request threads of the Deployment server
    thr,               \* per thread: the request it runs and its position in it
    \* ---- utils: Timer and TimerCollection
    now,               \* what time.time() returns
    timer,             \* a Timer: [start_time, stop_time, duration]
    tmGhost,           \* what the calls on the Timer amount to since its last reset
    tmLast,            \* the last call on the Timer and what it returned or raised
    timers,            \* TimerCollection._timers: name -> Timer
    tcLast,            \* the last call on the TimerCollection
    \* ---- Discord bot: replies sent in chunks
    split,             \* the reply being sent: [site, n, idx, num_chunks, sent]
    splitDone          \* per site: the last reply sent completely, [n, chunks]

backendVars == <<bExperiments, bRuns, bVersions>>
deployVars == <<dsUp, dsModels, loaded_models, default_model, dsReq, dsResp, everLoaded>>
registryVars == <<models, experiments, modelsGen, experimentsGen, calls, hpc, hcall, hret>>

trainVars == <<tsTask, tsResp, tsLog>>
discordVars == <<training_requests, tickPc, tickIdx, tickExps, tickCur, loopAlive, notified,
                 tickOutstanding, tickChecked>>

clientVars == <<clLast>>
gatewayVars == <<gwLoadedModels, gwDefaultModel, gwReq, gwResp>>

raceVars == <<thr>>

\* The variables of the components that take no part in the specifications
\* of the servers.
timerVars == <<now, timer, tmGhost, tmLast>>
collectionVars == <<timers, tcLast>>
utilVars == <<timerVars, collectionVars>>
splitVars == <<split, splitDone>>
otherVars == <<raceVars, utilVars, splitVars>>

vars == <<backendVars, deployVars, registryVars, trainVars, discordVars, clientVars, gatewayVars,
          otherVars>>

\* ------------------------------------------------------ tracking backend
\* A run: [run_id, experiment_id, status, request_id, test_acc].
\* A registered model version: [name, version, run_id].

GetRun(runs, run_id) == CHOOSE r \in Range(runs) : r.run_id = run_id

HasVersion(versions, run_id) == \E i \in DOMAIN versions : versions[i].run_id = run_id

\* MLflow numbers the versions of a registered model 1, 2, ...
NextVersion(versions, name) ==
    ToString(Cardinality({i \in DOMAIN versions : versions[i].name = name}) + 1)

\* The fetch order of _fetch_models_info: registered models in the outer
\* loop, the versions of each in the inner loop.
InsertVersion(versions, rec) ==
    LET same == {i \in DOMAIN versions : versions[i].name = rec.name}
    IN IF same = {} THEN Append(versions, rec)
       ELSE LET last == CHOOSE i \in same : \A j \in same : j <= i
            IN SubSeq(versions, 1, last) \o <<rec>> \o SubSeq(versions, last + 1, Len(versions))

\* utils.mlflow.experiment_id: get the experiment, create it when absent.
\* mlflow.start_run: a new RUNNING run; search_runs lists newest first.
\* mlflow.set_tag("request_id", ...) when a request_id was given.
TrainStartRun(request_id, e) ==
    /\ Len(bRuns) < MaxRuns
    /\ bExperiments' = bExperiments \cup {e}
    /\ bRuns' = <<[run_id |-> RunId(Len(bRuns) + 1), experiment_id |-> e,
                   status |-> "RUNNING", request_id |-> request_id, test_acc |-> 0]>> \o bRuns
    /\ UNCHANGED bVersions

\* trainer.test logs test_acc_epoch; mlflow.pytorch.log_model registers the
\* next version of config.model.name for the active run.
TrainLogModel(i, name, acc) ==
    /\ i \in DOMAIN bRuns
    /\ bRuns[i].status = "RUNNING"
    /\ ~HasVersion(bVersions, bRuns[i].run_id)
    /\ bRuns' = [bRuns EXCEPT ![i].test_acc = acc]
    /\ bVersions' = InsertVersion(bVersions, [name |-> name,
                        version |-> NextVersion(bVersions, name), run_id |-> bRuns[i].run_id])
    /\ UNCHANGED bExperiments

\* Leaving the `with mlflow.start_run` block normally: the run is FINISHED.
TrainEndRun(i) ==
    /\ i \in DOMAIN bRuns
    /\ bRuns[i].status = "RUNNING"
    /\ HasVersion(bVersions, bRuns[i].run_id)
    /\ bRuns' = [bRuns EXCEPT ![i].status = "FINISHED"]
    /\ UNCHANGED <<bExperiments, bVersions>>

\* An exception inside the `with mlflow.start_run` block: the run is FAILED.
TrainFailRun(i) ==
    /\ i \in DOMAIN bRuns
    /\ bRuns[i].status = "RUNNING"
    /\ ~HasVersion(bVersions, bRuns[i].run_id)
    /\ bRuns' = [bRuns EXCEPT ![i].status = "FAILED"]
    /\ UNCHANGED <<bExperiments, bVersions>>

\* ---------------------------------------------------------------- Registry
\* A ModelRecord: [name, version, test_acc, experiment_id, run_id].

\* models[version.run_id] = {...}: a dict assignment keeps the position of
\* a key that is already there.
DictPut(d, rec) ==
    IF \E i \in DOMAIN d : d[i].run_id = rec.run_id
    THEN [i \in DOMAIN d |-> IF d[i].run_id = rec.run_id THEN rec ELSE d[i]]
    ELSE Append(d, rec)

RECURSIVE FetchModelsFrom(_, _, _, _)
FetchModelsFrom(versions, runs, i, acc) ==
    IF i > Len(versions) THEN acc
    ELSE LET v == versions[i]
             run == GetRun(runs, v.run_id)
         IN FetchModelsFrom(versions, runs, i + 1,
                DictPut(acc, [name |-> v.name, version |-> v.version,
                              test_acc |-> run.test_acc,
                              experiment_id |-> run.experiment_id,
                              run_id |-> v.run_id]))

FetchModelsInfo(versions, runs) == FetchModelsFrom(versions, runs, 1, <<>>)

\* A key with its two parts in the wrong order.
KeyVersionFirst(name, version) == version \o "/" \o name

\* f"{payload.model}/{payload.version}" and f'{model["name"]}/{model["version"]}'
Key(name, version) == name \o "/" \o version

VALUE_ERROR == "ValueError"

\* A lookup without the `if model is None` test: indexing None fails with a
\* TypeError, which no handler catches.
ModelNameAndVersionUnchecked(ms, run_id) ==
    IF \E i \in DOMAIN ms : ms[i].run_id = run_id
    THEN LET m == ms[CHOOSE i \in DOMAIN ms : ms[i].run_id = run_id]
         IN Key(m.name, m.version)
    ELSE "TypeError"

ModelNameAndVersion(ms, run_id) ==
    IF \E i \in DOMAIN ms : ms[i].run_id = run_id
    THEN LET m == ms[CHOOSE i \in DOMAIN ms : ms[i].run_id = run_id]
         IN Key(m.name, m.version)
    ELSE VALUE_ERROR

\* _fetch_experiments_info: every experiment but "Default".
FetchExperimentsInfo(exps) ==
    [e \in {x \in exps : ExperimentName(x) # "Default"} |-> [name |-> ExperimentName(e)]]

\* Registry.experiment_ids
ExperimentIdsOf(exps) == DOMAIN exps

\* A key function that ranks the records of every experiment alike.
BestKeyAnyExperiment(m, experiment_id) ==
    m.test_acc

\* The key function of the max() in best_model_for_experiment.
BestKey(m, experiment_id) ==
    IF m.experiment_id = experiment_id THEN m.test_acc ELSE -100

\* Python's max(iterable, key=...): the first element with the largest key.
RECURSIVE MaxFrom(_, _, _, _)
MaxFrom(ms, experiment_id, i, best) ==
    IF i > Len(ms) THEN best
    ELSE IF BestKey(ms[i], experiment_id) > BestKey(ms[best], experiment_id)
         THEN MaxFrom(ms, experiment_id, i + 1, i)
         ELSE MaxFrom(ms, experiment_id, i + 1, best)

\* Registry.best_model_for_experiment, after its refresh().  The Optional[Dict]
\* it returns is <<>> for None and <<record>> for a record.
BestModelForExperiment(ms, exps, experiment_id) ==
    IF Len(ms) = 0 \/ experiment_id \notin ExperimentIdsOf(exps) THEN <<>>
    ELSE <<ms[MaxFrom(ms, experiment_id, 2, 1)]>>

\* Registry.run_id_from_request_id: search_runs(self.experiment_ids) lists
\* the runs of the snapshot's experiments; the first run carrying the tag
\* decides.
RECURSIVE RunIdFrom(_, _, _, _)
RunIdFrom(runs, experiment_ids, request_id, i) ==
    IF i > Len(runs) THEN NONE
    ELSE IF runs[i].experiment_id \in experiment_ids /\ runs[i].request_id = request_id
         THEN IF runs[i].status = "FINISHED" THEN runs[i].run_id ELSE NONE
         ELSE RunIdFrom(runs, experiment_ids, request_id, i + 1)

\* A lookup that returns the first tagged run whatever its status.
RunIdOfAnyTagged(runs, experiment_ids, request_id) ==
    LET tagged == {i \in DOMAIN runs : /\ runs[i].experiment_id \in experiment_ids
                                       /\ runs[i].request_id = request_id}
    IN IF tagged = {} THEN NONE
       ELSE runs[CHOOSE i \in tagged : \A j \in tagged : i <= j].run_id

\* A lookup that passes over unfinished runs: the first FINISHED run
\* carrying the tag decides.
RunIdOfFirstFinished(runs, experiment_ids, request_id) ==
    LET finished == {i \in DOMAIN runs : /\ runs[i].experiment_id \in experiment_ids
                                         /\ runs[i].request_id = request_id
                                         /\ runs[i].status = "FINISHED"}
    IN IF finished = {} THEN NONE
       ELSE runs[CHOOSE i \in finished : \A j \in finished : i <= j].run_id

RunIdFromRequestId(runs, experiment_ids, request_id) ==
    RunIdFrom(runs, experiment_ids, request_id, 1)

\* ---- the steps of a handler that calls the shared Registry
Handlers == {"h1", "h2"}

NoCall == [op |-> "none", arg |-> NONE, gen |-> 0, models |-> <<>>, experiments |-> <<>>,
           runs |-> <<>>, name |-> NONE]
NoReturn == [status |-> "none", value |-> NONE, modelsGen |-> 0, experimentsGen |-> 0]

\* A handler enters refresh(), directly or through best_model_for_experiment.
CallRefresh(h, op, arg) ==
    /\ hpc[h] = "idle"
    /\ calls < MaxCalls
    /\ calls' = calls + 1
    /\ hcall' = [hcall EXCEPT ![h] = [op |-> op, arg |-> arg, gen |-> calls + 1,
                                      models |-> models, experiments |-> experiments,
                                      runs |-> <<>>, name |-> NONE]]
    /\ hret' = [hret EXCEPT ![h] = NoReturn]
    /\ hpc' = [hpc EXCEPT ![h] = "fetch_models"]
    /\ UNCHANGED <<models, experiments, modelsGen, experimentsGen>>

\* refresh(), first statement: self.models = self._fetch_models_info()
RefreshModels(h) ==
    /\ hpc[h] = "fetch_models"
    /\ models' = FetchModelsInfo(bVersions, bRuns)
    /\ modelsGen' = hcall[h].gen
    /\ hpc' = [hpc EXCEPT ![h] = "fetch_experiments"]
    /\ UNCHANGED <<experiments, experimentsGen, calls, hcall, hret>>

\* The backend cannot be reached while the models are fetched: the
\* exception leaves refresh() before the assignment.
RefreshModelsFails(h) ==
    /\ hpc[h] = "fetch_models"
    /\ hret' = [hret EXCEPT ![h] = [NoReturn EXCEPT !.status = "BackendUnavailable"]]
    /\ hpc' = [hpc EXCEPT ![h] = "idle"]
    /\ UNCHANGED <<models, experiments, modelsGen, experimentsGen, calls, hcall>>

\* refresh(), second statement: self.experiments = self._fetch_experiments_info()
RefreshExperiments(h) ==
    /\ hpc[h] = "fetch_experiments"
    /\ experiments' = FetchExperimentsInfo(bExperiments)
    /\ experimentsGen' = hcall[h].gen
    /\ IF hcall[h].op = "refresh"
       THEN /\ hpc' = [hpc EXCEPT ![h] = "idle"]
            /\ hret' = [hret EXCEPT ![h] = [NoReturn EXCEPT !.status = "returned"]]
       ELSE /\ hpc' = [hpc EXCEPT ![h] = "select"]
            /\ UNCHANGED hret
    /\ UNCHANGED <<models, modelsGen, calls, hcall>>

\* The backend cannot be reached while the experiments are fetched.
RefreshExperimentsFails(h) ==
    /\ hpc[h] = "fetch_experiments"
    /\ hret' = [hret EXCEPT ![h] = [NoReturn EXCEPT !.status = "BackendUnavailable"]]
    /\ hpc' = [hpc EXCEPT ![h] = "idle"]
    /\ UNCHANGED <<models, experiments, modelsGen, experimentsGen, calls, hcall>>

\* best_model_for_experiment after its refresh(): reads self.models and
\* self.experiment_ids and returns the selected record.
BestSelect(h) ==
    /\ hpc[h] = "select"
    /\ hret' = [hret EXCEPT ![h] =
                   [status |-> "returned",
                    value |-> BestModelForExperiment(models, experiments, hcall[h].arg),
                    modelsGen |-> modelsGen, experimentsGen |-> experimentsGen]]
    /\ hpc' = [hpc EXCEPT ![h] = "idle"]
    /\ UNCHANGED <<models, experiments, modelsGen, experimentsGen, calls, hcall>>

\* run_id_from_request_id: one search_runs call and a scan of its result.
CallRunIdFromRequestId(h, request_id) ==
    /\ hpc[h] = "idle"
    /\ calls < MaxCalls
    /\ calls' = calls + 1
    /\ hcall' = [hcall EXCEPT ![h] = [op |-> "run_id_from_request_id", arg |-> request_id,
                                      gen |-> calls + 1, models |-> <<>>,
                                      experiments |-> experiments, runs |-> bRuns,
                                      name |-> NONE]]
    /\ hret' = [hret EXCEPT ![h] =
                   [NoReturn EXCEPT !.status = "returned",
                        !.value = RunIdFromRequestId(bRuns, ExperimentIdsOf(experiments),
                                                     request_id)]]
    /\ UNCHANGED <<models, experiments, modelsGen, experimentsGen, hpc>>

\* ---- the Registry's lookups
ExperimentNames == {"Default", "mnist", "cifar", "imagenet"}

\* MlflowClient.get_experiment_by_name: the experiment's id, or None.
GetExperimentByName(exps, experiment_name) ==
    IF \E e \in exps : ExperimentName(e) = experiment_name
    THEN CHOOSE e \in exps : ExperimentName(e) = experiment_name
    ELSE NONE

ATTRIBUTE_ERROR == "AttributeError"

\* Registry.experiment_id: self.client.get_experiment_by_name(name).experiment_id;
\* reading .experiment_id of None raises AttributeError.
ExperimentId(exps, experiment_name) ==
    IF GetExperimentByName(exps, experiment_name) = NONE
    THEN ATTRIBUTE_ERROR
    ELSE GetExperimentByName(exps, experiment_name)

\* Registry.experiment_names
ExperimentNamesOf(exps) == {exps[e].name : e \in DOMAIN exps}

\* Registry.experiment_id(name), called by a handler: one backend call.
CallExperimentId(h, experiment_name) ==
    /\ hpc[h] = "idle"
    /\ calls < MaxCalls
    /\ calls' = calls + 1
    /\ hcall' = [hcall EXCEPT ![h] = [NoCall EXCEPT !.op = "experiment_id", !.gen = calls + 1,
                                                    !.models = models,
                                                    !.experiments = experiments,
                                                    !.name = experiment_name]]
    /\ hret' = [hret EXCEPT ![h] =
                   IF ExperimentId(bExperiments, experiment_name) = ATTRIBUTE_ERROR
                   THEN [NoReturn EXCEPT !.status = ATTRIBUTE_ERROR]
                   ELSE [NoReturn EXCEPT !.status = "returned",
                                         !.value = ExperimentId(bExperiments, experiment_name)]]
    /\ UNCHANGED <<models, experiments, modelsGen, experimentsGen, hpc>>

\* Registry.experiment_names, read by a handler.
CallExperimentNames(h) ==
    /\ hpc[h] = "idle"
    /\ calls < MaxCalls
    /\ calls' = calls + 1
    /\ hcall' = [hcall EXCEPT ![h] = [NoCall EXCEPT !.op = "experiment_names", !.gen = calls + 1,
                                                    !.models = models,
                                                    !.experiments = experiments]]
    /\ hret' = [hret EXCEPT ![h] = [NoReturn EXCEPT !.status = "returned",
                                                  !.value = ExperimentNamesOf(experiments)]]
    /\ UNCHANGED <<models, experiments, modelsGen, experimentsGen, hpc>>

\* Registry.experiment_ids, read by a handler.
CallExperimentIds(h) ==
    /\ hpc[h] = "idle"
    /\ calls < MaxCalls
    /\ calls' = calls + 1
    /\ hcall' = [hcall EXCEPT ![h] = [NoCall EXCEPT !.op = "experiment_ids", !.gen = calls + 1,
                                                    !.models = models,
                                                    !.experiments = experiments]]
    /\ hret' = [hret EXCEPT ![h] = [NoReturn EXCEPT !.status = "returned",
                                                  !.value = ExperimentIdsOf(experiments)]]
    /\ UNCHANGED <<models, experiments, modelsGen, experimentsGen, hpc>>

\* Registry.best_model_for_experiment_name, as the Gateway's
\* /best-model-for-experiment route calls it: experiment_id(name), then
\* best_model_for_experiment(experiment_id).  An AttributeError leaves the
\* handler and the route answers 500.
CallBestModelForExperimentName(h, experiment_name) ==
    IF ExperimentId(bExperiments, experiment_name) = ATTRIBUTE_ERROR
    THEN /\ hpc[h] = "idle"
         /\ calls < MaxCalls
         /\ calls' = calls + 1
         /\ hcall' = [hcall EXCEPT ![h] = [NoCall EXCEPT !.op = "best_model_for_experiment_name",
                                                         !.gen = calls + 1,
                                                         !.models = models,
                                                         !.experiments = experiments,
                                                         !.name = experiment_name]]
         /\ hret' = [hret EXCEPT ![h] = [NoReturn EXCEPT !.status = ATTRIBUTE_ERROR]]
         /\ UNCHANGED <<models, experiments, modelsGen, experimentsGen, hpc>>
    ELSE /\ CallRefresh(h, "best_model_for_experiment", ExperimentId(bExperiments, experiment_name))
         /\ hcall'[h].name = NONE

\* Registry.model_name_and_version(run_id), called by a handler.
CallModelNameAndVersion(h, run_id) ==
    /\ hpc[h] = "idle"
    /\ calls < MaxCalls
    /\ calls' = calls + 1
    /\ hcall' = [hcall EXCEPT ![h] = [NoCall EXCEPT !.op = "model_name_and_version",
                                                    !.arg = run_id, !.gen = calls + 1,
                                                    !.models = models,
                                                    !.experiments = experiments]]
    /\ hret' = [hret EXCEPT ![h] =
                   IF ModelNameAndVersion(models, run_id) = VALUE_ERROR
                   THEN [NoReturn EXCEPT !.status = VALUE_ERROR]
                   ELSE [NoReturn EXCEPT !.status = "returned",
                                         !.value = ModelNameAndVersion(models, run_id)]]
    /\ UNCHANGED <<models, experiments, modelsGen, experimentsGen, hpc>>

\* ------------------------------------------------------ Deployment server
\* A request payload: [model, version, run_id, ok]; ok says whether the rest
\* of a classify payload (dataset index, image) can be processed.
\* A response: [op, status, detail, key, servedBy, prediction].

NoRequest == [op |-> "none", payload |-> [model |-> NONE, version |-> NONE, run_id |-> NONE, ok |-> TRUE],
              versions |-> <<>>]
NoResponse == [op |-> "none", status |-> 0, detail |-> "", key |-> NONE, servedBy |-> NONE,
               prediction |-> NONE]

MUST_SPECIFY == "Must specify either (1) model and version or (2) run_id."
NO_MODEL == "No model loaded or given."

Registered(versions, key) ==
    \E i \in DOMAIN versions : Key(versions[i].name, versions[i].version) = key

\* mlflow.pyfunc.load_model(f"models:/{model_name_and_version}")
ModelUri(key) == "models:/" \o key

\* DeploymentServer.__init__: Registry() takes its snapshot; the class
\* attributes loaded_models and default_model start empty.
DeployStart ==
    /\ ~dsUp
    /\ dsUp' = TRUE
    /\ dsModels' = FetchModelsInfo(bVersions, bRuns)
    /\ UNCHANGED <<loaded_models, default_model, dsReq, dsResp, everLoaded>>

\* A retrieval that rejects a named model that is not in the cache instead
\* of falling back to the default.
RetrieveModelStrict(cache, default, model_name) ==
    IF model_name # NONE
    THEN IF model_name \in DOMAIN cache THEN cache[model_name] ELSE NONE
    ELSE IF default \in DOMAIN cache THEN cache[default] ELSE NONE

\* DeploymentServer._retrieve_model: NONE stands for the ValueError.
RetrieveModel(cache, default, model_name) ==
    LET named == IF model_name # NONE /\ model_name \in DOMAIN cache
                 THEN cache[model_name] ELSE NONE
    IN IF named # NONE THEN named
       ELSE IF default \in DOMAIN cache THEN cache[default] ELSE NONE

\* A load-model that keeps a single entry: the cache is replaced by the
\* newly loaded model.
DeployLoadModelEvicting(payload) ==
    /\ dsUp
    /\ dsReq' = [op |-> "load-model", payload |-> payload, versions |-> bVersions]
    /\ LET model_name_and_version ==
               IF payload.run_id # NONE
               THEN ModelNameAndVersion(dsModels, payload.run_id)
               ELSE IF payload.model = NONE \/ payload.version = NONE THEN VALUE_ERROR
               ELSE Key(payload.model, payload.version)
       IN IF model_name_and_version = VALUE_ERROR
          THEN /\ dsResp' = [NoResponse EXCEPT !.op = "load-model", !.status = 400]
               /\ UNCHANGED <<loaded_models, default_model, everLoaded>>
          ELSE IF ~Registered(bVersions, model_name_and_version)
          THEN /\ dsResp' = [NoResponse EXCEPT !.op = "load-model", !.status = 500,
                                                !.detail = "MlflowException"]
               /\ UNCHANGED <<loaded_models, default_model, everLoaded>>
          ELSE /\ loaded_models' =
                      [k \in {model_name_and_version} |-> ModelUri(model_name_and_version)]
               /\ default_model' = model_name_and_version
               /\ everLoaded' = TRUE
               /\ dsResp' = [NoResponse EXCEPT !.op = "load-model", !.status = 200,
                                                !.key = model_name_and_version]
    /\ UNCHANGED <<dsUp, dsModels>>

\* POST /load-model
DeployLoadModel(payload) ==
    /\ dsUp
    /\ dsReq' = [op |-> "load-model", payload |-> payload, versions |-> bVersions]
    /\ IF (payload.model = NONE \/ payload.version = NONE) /\ payload.run_id = NONE
       THEN /\ dsResp' = [NoResponse EXCEPT !.op = "load-model", !.status = 400,
                                             !.detail = MUST_SPECIFY]
            /\ UNCHANGED <<loaded_models, default_model, everLoaded>>
       ELSE LET model_name_and_version ==
                    IF payload.run_id # NONE
                    THEN ModelNameAndVersion(dsModels, payload.run_id)
                    ELSE Key(payload.model, payload.version)
            IN IF model_name_and_version = VALUE_ERROR
               THEN /\ dsResp' = [NoResponse EXCEPT !.op = "load-model", !.status = 400,
                                                     !.detail = "No model found with run_id"]
                    /\ UNCHANGED <<loaded_models, default_model, everLoaded>>
               ELSE IF ~Registered(bVersions, model_name_and_version)
               THEN \* mlflow.pyfunc.load_model raises: an unhandled exception
                    /\ dsResp' = [NoResponse EXCEPT !.op = "load-model", !.status = 500,
                                                     !.detail = "MlflowException"]
                    /\ UNCHANGED <<loaded_models, default_model, everLoaded>>
               ELSE /\ loaded_models' =
                           [k \in DOMAIN loaded_models \cup {model_name_and_version} |->
                               IF k = model_name_and_version
                               THEN ModelUri(model_name_and_version)
                               ELSE loaded_models[k]]
                    /\ default_model' = model_name_and_version
                    /\ everLoaded' = TRUE
                    /\ dsResp' = [NoResponse EXCEPT !.op = "load-model", !.status = 200,
                                                     !.key = model_name_and_version]
    /\ UNCHANGED <<dsUp, dsModels>>

\* The body shared by classify_id and classify_image: the model is retrieved
\* first, then the sample is fetched (the image is decoded), then the model
\* predicts.  An unhandled exception is answered with status 500.
ClassifyInputFirst(op, payload, cache, default) ==
    LET model == RetrieveModel(cache, default, payload.model)
    IN IF ~payload.ok
       THEN [NoResponse EXCEPT !.op = op, !.status = 500, !.detail = "bad input"]
       ELSE IF model = NONE
       THEN [NoResponse EXCEPT !.op = op, !.status = 500, !.detail = NO_MODEL]
       ELSE [NoResponse EXCEPT !.op = op, !.status = 200, !.servedBy = model,
                               !.prediction = "argmax"]

ClassifyResponse(op, payload, cache, default) ==
    LET model == RetrieveModel(cache, default, payload.model)
    IN IF model = NONE
       THEN [NoResponse EXCEPT !.op = op, !.status = 500, !.detail = NO_MODEL]
       ELSE IF ~payload.ok
       THEN [NoResponse EXCEPT !.op = op, !.status = 500, !.detail = "bad input"]
       ELSE [NoResponse EXCEPT !.op = op, !.status = 200, !.servedBy = model,
                               !.prediction = "argmax"]

\* POST /classify-id
DeployClassifyId(payload) ==
    /\ dsUp
    /\ dsReq' = [op |-> "classify-id", payload |-> payload, versions |-> bVersions]
    /\ dsResp' = ClassifyResponse("classify-id", payload, loaded_models, default_model)
    /\ UNCHANGED <<dsUp, dsModels, loaded_models, default_model, everLoaded>>

\* POST /classify-image
DeployClassifyImage(payload) ==
    /\ dsUp
    /\ dsReq' = [op |-> "classify-image", payload |-> payload, versions |-> bVersions]
    /\ dsResp' = ClassifyResponse("classify-image", payload, loaded_models, default_model)
    /\ UNCHANGED <<dsUp, dsModels, loaded_models, default_model, everLoaded>>

\* ---- the same handlers statement by statement, one request per thread
\* FastAPI runs a `def` route on a thread of its pool: the statements of two
\* requests interleave, and each dict operation and attribute access is one
\* step.  A thread: [pc, op, key, default, model, during, afterLoad, resp];
\* `during` collects the values the default pointer took while the request
\* ran and afterLoad says that a load-model had returned when it started.
\* Two threads run load-model requests and one runs classify requests.
Loaders == {"t1", "t2"}
Classifiers == {"t3"}
Threads == Loaders \cup Classifiers

NoThread == [pc |-> "idle", op |-> "none", key |-> NONE, default |-> NONE, model |-> NONE,
             during |-> {}, afterLoad |-> FALSE, resp |-> NoResponse]

\* load_model is entered with a payload naming model and version (line 87).
LoadBegin(t, key) ==
    /\ dsUp
    /\ thr[t].pc = "idle"
    /\ thr' = [thr EXCEPT ![t] = [NoThread EXCEPT !.pc = "fetch", !.op = "load-model", !.key = key]]
    /\ UNCHANGED deployVars

\* line 89: model = mlflow.pyfunc.load_model(...), which raises for a key the
\* backend does not hold.
LoadFetch(t) ==
    /\ thr[t].pc = "fetch"
    /\ IF Registered(bVersions, thr[t].key)
       THEN thr' = [thr EXCEPT ![t].pc = "store", ![t].model = ModelUri(thr[t].key)]
       ELSE thr' = [thr EXCEPT ![t].pc = "idle",
                               ![t].resp = [NoResponse EXCEPT !.op = "load-model", !.status = 500,
                                                              !.detail = "MlflowException"]]
    /\ UNCHANGED deployVars

\* A load that never puts the model into the cache.
LoadStoreSkipped(t) ==
    /\ thr[t].pc = "store"
    /\ thr' = [thr EXCEPT ![t].pc = "set_default"]
    /\ UNCHANGED deployVars

\* line 90: self.loaded_models[model_name_and_version] = model
LoadStore(t) ==
    /\ thr[t].pc = "store"
    /\ loaded_models' = [k \in DOMAIN loaded_models \cup {thr[t].key} |->
                            IF k = thr[t].key THEN thr[t].model ELSE loaded_models[k]]
    /\ thr' = [thr EXCEPT ![t].pc = "set_default"]
    /\ UNCHANGED <<dsUp, dsModels, default_model, dsReq, dsResp, everLoaded>>

\* lines 91-93: self.default_model = model_name_and_version; return True.
\* Every classify request that is running sees the new value of the pointer.
LoadSetDefault(t) ==
    /\ thr[t].pc = "set_default"
    /\ default_model' = thr[t].key
    /\ everLoaded' = TRUE
    /\ thr' = [u \in Threads |->
                 IF u = t
                 THEN [thr[u] EXCEPT !.pc = "idle",
                                     !.resp = [NoResponse EXCEPT !.op = "load-model", !.status = 200,
                                                                 !.key = thr[t].key]]
                 ELSE IF thr[u].pc \in {"named", "read_default", "lookup", "predict"}
                 THEN [thr[u] EXCEPT !.during = @ \cup {thr[t].key}]
                 ELSE thr[u]]
    /\ UNCHANGED <<dsUp, dsModels, loaded_models, dsReq, dsResp>>

\* classify_id / classify_image is entered: _retrieve_model(payload.model).
ClassifyBegin(t, op, model_name) ==
    /\ dsUp
    /\ thr[t].pc = "idle"
    /\ thr' = [thr EXCEPT ![t] = [NoThread EXCEPT !.pc = "named", !.op = op, !.key = model_name,
                                                  !.during = {default_model},
                                                  !.afterLoad = everLoaded]]
    /\ UNCHANGED deployVars

\* lines 50-53: model = self.loaded_models.get(model_name) when a name is given.
ClassifyNamed(t) ==
    /\ thr[t].pc = "named"
    /\ IF thr[t].key # NONE /\ thr[t].key \in DOMAIN loaded_models
       THEN thr' = [thr EXCEPT ![t].pc = "predict", ![t].model = loaded_models[thr[t].key]]
       ELSE thr' = [thr EXCEPT ![t].pc = "read_default"]
    /\ UNCHANGED deployVars

\* line 54, the argument: self.default_model is read.
ClassifyReadDefault(t) ==
    /\ thr[t].pc = "read_default"
    /\ thr' = [thr EXCEPT ![t].pc = "lookup", ![t].default = default_model]
    /\ UNCHANGED deployVars

\* line 54, the call: self.loaded_models.get(<the value read>).
ClassifyLookup(t) ==
    /\ thr[t].pc = "lookup"
    /\ thr' = [thr EXCEPT ![t].pc = "predict",
                          ![t].model = IF thr[t].default \in DOMAIN loaded_models
                                       THEN loaded_models[thr[t].default] ELSE NONE]
    /\ UNCHANGED deployVars

\* lines 55-57 and the rest of the handler: ValueError without a model, the
\* prediction of the retrieved model otherwise.
ClassifyFinish(t) ==
    /\ thr[t].pc = "predict"
    /\ thr' = [thr EXCEPT ![t].pc = "idle",
                          ![t].resp = IF thr[t].model = NONE
                                      THEN [NoResponse EXCEPT !.op = thr[t].op, !.status = 500,
                                                              !.detail = NO_MODEL]
                                      ELSE [NoResponse EXCEPT !.op = thr[t].op, !.status = 200,
                                                              !.servedBy = thr[t].model,
                                                              !.prediction = "argmax"]]
    /\ UNCHANGED deployVars

\* -------------------------------------------------------- Training server
Requests == {"q1", "q2"}

ACK == "Server received request for start_training_run"

\* A handler that runs the training inside the request: no response is
\* produced while the subprocess has not finished.
StartTrainingRunBlocking(q, multirun) ==
    /\ tsTask[q].state = "none"
    /\ tsTask' = [tsTask EXCEPT ![q] = [state |-> "queued", multirun |-> multirun]]
    /\ UNCHANGED <<tsResp, tsLog>>

\* POST /start_training_run: background_tasks.add_task(...) and the response.
StartTrainingRun(q, multirun) ==
    /\ tsTask[q].state = "none"
    /\ tsTask' = [tsTask EXCEPT ![q] = [state |-> "queued", multirun |-> multirun]]
    /\ tsResp' = [tsResp EXCEPT ![q] = ACK]
    /\ UNCHANGED tsLog

\* train_background_task starts, after the response was sent, and launches
\* `rye run train <arguments> request_id="<q>"` with subprocess.run.
TaskBegin(q) ==
    /\ tsTask[q].state = "queued"
    /\ tsTask' = [tsTask EXCEPT ![q].state = "running"]
    /\ UNCHANGED <<tsResp, tsLog>>

RunsOf(q) == {i \in DOMAIN bRuns : bRuns[i].request_id = q}

\* The subprocess may start a run: its first one, or with --multirun the
\* next job once the previous one has ended.
MayStartRun(q) ==
    /\ tsTask[q].state = "running"
    /\ \/ RunsOf(q) = {}
       \/ tsTask[q].multirun /\ \A i \in RunsOf(q) : bRuns[i].status # "RUNNING"

\* The run belongs to a subprocess that is still alive.
Alive(i) ==
    /\ i \in DOMAIN bRuns
    /\ bRuns[i].request_id \in Requests
    /\ tsTask[bRuns[i].request_id].state = "running"

\* subprocess.run returns: the process exited with status zero.
TaskExitZero(q) ==
    /\ tsTask[q].state = "running"
    /\ RunsOf(q) # {}
    /\ \A i \in RunsOf(q) : bRuns[i].status = "FINISHED"
    /\ tsTask' = [tsTask EXCEPT ![q].state = "done"]
    /\ UNCHANGED <<tsResp, tsLog>>

\* subprocess.run raises CalledProcessError: the task logs it and re-raises.
TaskExitNonZero(q) ==
    /\ tsTask[q].state = "running"
    /\ \A i \in RunsOf(q) : bRuns[i].status # "RUNNING"
    /\ RunsOf(q) = {} \/ \E i \in RunsOf(q) : bRuns[i].status = "FAILED"
    /\ tsTask' = [tsTask EXCEPT ![q].state = "failed"]
    /\ tsLog' = tsLog \cup {q}
    /\ UNCHANGED tsResp

\* ------------------------------------------------------------- Discord bot
\* list.remove(x): the first element equal to x is removed.
Remove(list, x) ==
    LET i == CHOOSE j \in DOMAIN list : list[j] = x /\ \A k \in 1..(j - 1) : list[k] # x
    IN SubSeq(list, 1, i - 1) \o SubSeq(list, i + 1, Len(list))

\* The train command: gateway_server.train(...) reaches start_training_run,
\* then the request is appended.  Commands run between the awaits of the
\* polling loop.
DiscordTrain(q, multirun) ==
    /\ tickPc \in {"idle", "reply"}
    /\ StartTrainingRun(q, multirun)
    /\ training_requests' = Append(training_requests, q)
    /\ UNCHANGED <<tickPc, tickIdx, tickExps, tickCur, loopAlive, notified,
                   tickOutstanding, tickChecked>>

\* check_training_jobs is called by the loop: registry = Registry().
CheckJobsStart ==
    /\ loopAlive
    /\ tickPc = "idle"
    /\ tickExps' = ExperimentIdsOf(FetchExperimentsInfo(bExperiments))
    /\ tickIdx' = 1
    /\ tickPc' = "loop"
    /\ tickOutstanding' = Range(training_requests)
    /\ tickChecked' = {}
    /\ UNCHANGED <<training_requests, tickCur, loopAlive, notified>>

\* One step of `for training_request in DiscordClient.training_requests`:
\* the list iterator yields the element at its index, or the loop ends.
CheckJobsNext ==
    /\ tickPc = "loop"
    /\ IF tickIdx > Len(training_requests)
       THEN /\ tickPc' = "idle"
            /\ UNCHANGED <<training_requests, tickIdx, tickCur, tickChecked>>
       ELSE LET request_id == training_requests[tickIdx]
                run_id == RunIdFromRequestId(bRuns, tickExps, request_id)
            IN /\ tickIdx' = tickIdx + 1
               /\ tickChecked' = tickChecked \cup {request_id}
               /\ IF run_id # NONE
                  THEN /\ training_requests' = Remove(training_requests, request_id)
                       /\ tickCur' = request_id
                       /\ tickPc' = "reply"
                  ELSE UNCHANGED <<training_requests, tickCur, tickPc>>
    /\ UNCHANGED <<tickExps, loopAlive, notified, tickOutstanding>>

\* The message is fetched, the summary built and the reply sent.
CheckJobsReply ==
    /\ tickPc = "reply"
    /\ notified' = notified \cup {tickCur}
    /\ tickCur' = NONE
    /\ tickPc' = "loop"
    /\ UNCHANGED <<training_requests, tickIdx, tickExps, loopAlive, tickOutstanding, tickChecked>>

\* A failure after which the request is put back for the next tick.
CheckJobsReplyFailsRequeue ==
    /\ tickPc = "reply"
    /\ training_requests' = Append(training_requests, tickCur)
    /\ loopAlive' = FALSE
    /\ tickCur' = NONE
    /\ tickPc' = "idle"
    /\ UNCHANGED <<tickIdx, tickExps, notified, tickOutstanding, tickChecked>>

\* Fetching the message, the gateway calls or the reply raise: the
\* exception leaves check_training_jobs and the loop stops.
CheckJobsReplyFails ==
    /\ tickPc = "reply"
    /\ loopAlive' = FALSE
    /\ tickCur' = NONE
    /\ tickPc' = "idle"
    /\ UNCHANGED <<training_requests, tickIdx, tickExps, notified, tickOutstanding, tickChecked>>

\* The same with an exception tasks.loop treats as a lost connection (an
\* OSError such as requests' ConnectionError, a timeout): the call is left
\* and the loop calls check_training_jobs again.  The tick did not run to
\* its end.
CheckJobsReplyRetried ==
    /\ tickPc = "reply"
    /\ tickCur' = NONE
    /\ tickPc' = "idle"
    /\ tickOutstanding' = {}
    /\ tickChecked' = {}
    /\ UNCHANGED <<training_requests, tickIdx, tickExps, loopAlive, notified>>

\* ---- replies longer than Discord's message limit
\* A text is known by its length n; the chunk text[start:end] is the pair
\* <<first, last>> of the 1-based positions it holds, first > last for the
\* empty string.
max_len == 2000

\* Texts of up to MaxBlocks full messages, one character more or less.
MaxBlocks == 2
TextLengths == {k * max_len + d : k \in 0..MaxBlocks, d \in {-1, 0, 1}} \ {-1}

\* msg starts with "Training has finished. ... results.\n\n".
FinishedPrefix == 81

SplitSites == {"on_message", "chat", "check_training_jobs"}

\* The lengths a reply can have at a site.
SiteLengths(site) ==
    IF site = "check_training_jobs" THEN {n \in TextLengths : n >= FinishedPrefix}
    ELSE TextLengths

\* math.ceil(n / m)
Ceil(n, m) == IF n % m = 0 THEN n \div m ELSE (n \div m) + 1

Max(a, b) == IF a >= b THEN a ELSE b
Min(a, b) == IF a <= b THEN a ELSE b

\* num_chunks = max(ceil(len(text) / max_len), 1)
NumChunks(n) == Max(Ceil(n, max_len), 1)

\* A slice that drops the last character of every chunk.
SliceShort(n, start, end) == <<Min(start, n) + 1, Min(end, n) - 1>>

\* text[start:end] of a text of length n
Slice(n, start, end) == <<Min(start, n) + 1, Min(end, n)>>

NoSplit == [site |-> NONE, n |-> 0, idx |-> 0, num_chunks |-> 0, sent |-> <<>>]
NoReply == [n |-> -1, chunks |-> <<>>]

\* The reply text is ready and num_chunks is computed.
SplitBegin(site, n) ==
    /\ split.site = NONE
    /\ split' = [site |-> site, n |-> n, idx |-> 0, num_chunks |-> NumChunks(n), sent |-> <<>>]
    /\ UNCHANGED splitDone

\* One pass of `for idx in range(num_chunks)`: the chunk is sent; after the
\* last one the handler goes on.
SplitSend ==
    /\ split.site # NONE
    /\ split.idx < split.num_chunks
    /\ LET start == split.idx * max_len
           end == (split.idx + 1) * max_len
           sent == Append(split.sent, Slice(split.n, start, end))
       IN IF split.idx + 1 = split.num_chunks
          THEN /\ splitDone' = [splitDone EXCEPT ![split.site] = [n |-> split.n, chunks |-> sent]]
               /\ split' = NoSplit
          ELSE /\ split' = [split EXCEPT !.idx = @ + 1, !.sent = sent]
               /\ UNCHANGED splitDone

\* send / reply raises: the handler is left with the rest unsent.
SplitSendFails ==
    /\ split.site # NONE
    /\ split' = NoSplit
    /\ UNCHANGED splitDone

\* ---------------------------------------------------------- Gateway server
\* The Gateway's model-serving routes work on GatewayServer.loaded_models and
\* GatewayServer.default_model with the Gateway's own Registry (models); no
\* request is made to the Deployment server, whose state they leave alone.

\* A Gateway that forwards the request to the Deployment server and returns
\* its response.
GatewayLoadModelProxied(payload) ==
    /\ DeployLoadModel(payload)
    /\ gwReq' = [op |-> "load-model", payload |-> payload]
    /\ gwResp' = dsResp'
    /\ UNCHANGED <<gwLoadedModels, gwDefaultModel>>

\* POST /load-model on the Gateway
GatewayLoadModel(payload) ==
    /\ gwReq' = [op |-> "load-model", payload |-> payload]
    /\ IF (payload.model = NONE \/ payload.version = NONE) /\ payload.run_id = NONE
       THEN /\ gwResp' = [NoResponse EXCEPT !.op = "load-model", !.status = 400,
                                             !.detail = MUST_SPECIFY]
            /\ UNCHANGED <<gwLoadedModels, gwDefaultModel>>
       ELSE LET model_name_and_version ==
                    IF payload.run_id # NONE
                    THEN ModelNameAndVersion(models, payload.run_id)
                    ELSE Key(payload.model, payload.version)
            IN IF model_name_and_version = VALUE_ERROR
               THEN /\ gwResp' = [NoResponse EXCEPT !.op = "load-model", !.status = 400,
                                                     !.detail = "No model found with run_id"]
                    /\ UNCHANGED <<gwLoadedModels, gwDefaultModel>>
               ELSE IF ~Registered(bVersions, model_name_and_version)
               THEN /\ gwResp' = [NoResponse EXCEPT !.op = "load-model", !.status = 500,
                                                     !.detail = "MlflowException"]
                    /\ UNCHANGED <<gwLoadedModels, gwDefaultModel>>
               ELSE /\ gwLoadedModels' =
                           [k \in DOMAIN gwLoadedModels \cup {model_name_and_version} |->
                               IF k = model_name_and_version
                               THEN ModelUri(model_name_and_version)
                               ELSE gwLoadedModels[k]]
                    /\ gwDefaultModel' = model_name_and_version
                    /\ gwResp' = [NoResponse EXCEPT !.op = "load-model", !.status = 200,
                                                     !.key = model_name_and_version]
    /\ UNCHANGED deployVars

\* POST /classify-id on the Gateway
GatewayClassifyId(payload) ==
    /\ gwReq' = [op |-> "classify-id", payload |-> payload]
    /\ gwResp' = ClassifyResponse("classify-id", payload, gwLoadedModels, gwDefaultModel)
    /\ UNCHANGED <<gwLoadedModels, gwDefaultModel>>
    /\ UNCHANGED deployVars

\* POST /classify-image on the Gateway
GatewayClassifyImage(payload) ==
    /\ gwReq' = [op |-> "classify-image", payload |-> payload]
    /\ gwResp' = ClassifyResponse("classify-image", payload, gwLoadedModels, gwDefaultModel)
    /\ UNCHANGED <<gwLoadedModels, gwDefaultModel>>
    /\ UNCHANGED deployVars

\* ------------------------------------------------------ connection clients
Clients == {"gateway", "deployment", "training"}

\* The methods of gateway/connection_client.py: the route requested, the
\* timeout given to requests.request, whether the status code is checked
\* before the body is read, and the key the method reads from the body.
GatewayClientMethods ==
    { [method |-> "commands", route |-> "commands", timeout |-> 60, checks |-> TRUE, reads |-> "commands"],
      [method |-> "chat", route |-> "chat", timeout |-> 60, checks |-> TRUE, reads |-> "sender"],
      [method |-> "models", route |-> "models", timeout |-> 60, checks |-> TRUE, reads |-> NONE],
      [method |-> "list_experiments", route |-> "fetch-experiments", timeout |-> 60, checks |-> TRUE, reads |-> NONE],
      [method |-> "list_runs", route |-> "fetch-runs", timeout |-> 60, checks |-> TRUE, reads |-> NONE],
      [method |-> "list_models", route |-> "fetch-models", timeout |-> 60, checks |-> TRUE, reads |-> NONE],
      [method |-> "best_model_for_experiment", route |-> "best-model-for-experiment", timeout |-> 60,
       checks |-> TRUE, reads |-> NONE],
      [method |-> "load_model", route |-> "load-model", timeout |-> 60, checks |-> TRUE, reads |-> NONE],
      [method |-> "classify_id", route |-> "classify-id", timeout |-> 60, checks |-> FALSE, reads |-> "image"],
      [method |-> "classify_image", route |-> "classify-image", timeout |-> 60, checks |-> TRUE, reads |-> NONE],
      [method |-> "train", route |-> "train", timeout |-> 24 * 60 * 60, checks |-> TRUE, reads |-> NONE] }

\* The methods of deployment/connection_client.py.
DeploymentClientMethods ==
    { [method |-> "load_model", route |-> "load-model", timeout |-> 60, checks |-> TRUE, reads |-> NONE],
      [method |-> "classify_id", route |-> "classify-id", timeout |-> 60, checks |-> FALSE, reads |-> "image"],
      [method |-> "classify_image", route |-> "classify-image", timeout |-> 60, checks |-> TRUE, reads |-> NONE] }

\* The method of training/connection_client.py.
TrainingClientMethods ==
    { [method |-> "start_training_run", route |-> "start_training_run", timeout |-> 24 * 24 * 60,
       checks |-> TRUE, reads |-> NONE] }

ClientMethods(c) ==
    IF c = "gateway" THEN GatewayClientMethods
    ELSE IF c = "deployment" THEN DeploymentClientMethods
    ELSE TrainingClientMethods

\* The routes each server's app() registers.
GatewayRoutes ==
    {"commands", "chat", "models", "experiments", "best-model-for-experiment", "load-model",
     "classify-id", "classify-image", "train", "training-complete", "debug"}
DeploymentRoutes == {"load-model", "classify-id", "classify-image"}
TrainingRoutes == {"start_training_run"}

ServerRoutes(c) ==
    IF c = "gateway" THEN GatewayRoutes
    ELSE IF c = "deployment" THEN DeploymentRoutes
    ELSE TrainingRoutes

\* The routes whose handler raises HTTPException(status_code=400, ...).
RaisesBadRequest == {"load-model", "debug"}

\* What a FastAPI server may answer to a POST on a route.  The content is
\* "result" for the JSON of the handler's return value, "detail" for the
\* JSON object {"detail": ...} of an HTTPException, of a validation error or
\* of an unknown route, and "text" for the plain text of an unhandled
\* exception.
ServerResponses(c, route) ==
    IF route \notin ServerRoutes(c)
    THEN {[status_code |-> 404, content |-> "detail"]}
    ELSE {[status_code |-> 200, content |-> "result"],
          [status_code |-> 422, content |-> "detail"],
          [status_code |-> 500, content |-> "text"]}
         \cup (IF route \in RaisesBadRequest
               THEN {[status_code |-> 400, content |-> "detail"]} ELSE {})

\* json.loads(response.content)
JsonLoads(content) == IF content = "text" THEN "JSONDecodeError" ELSE content

NoOutcome == [raised |-> NONE, status_code |-> 0, detail |-> NONE, value |-> NONE]

\* What a method does with the response: the value it returns or the
\* exception it raises.
ClientReturn(m, response) ==
    IF m.checks /\ response.status_code # 200
    THEN [NoOutcome EXCEPT !.raised = "HTTPException", !.status_code = response.status_code,
                           !.detail = response.content]
    ELSE IF JsonLoads(response.content) = "JSONDecodeError"
    THEN [NoOutcome EXCEPT !.raised = "JSONDecodeError"]
    ELSE IF m.reads # NONE /\ JsonLoads(response.content) = "detail"
    THEN [NoOutcome EXCEPT !.raised = "KeyError"]
    ELSE [NoOutcome EXCEPT !.value = JsonLoads(response.content)]

NoClientCall ==
    [method |-> NONE, route |-> NONE, timeout |-> 0, requests |-> 0,
     response |-> [status_code |-> 0, content |-> NONE], outcome |-> NoOutcome]

\* One call of a connection-client method: one requests.request(...).
ClientCall(c, m, response) ==
    /\ m \in ClientMethods(c)
    /\ response \in ServerResponses(c, m.route)
    /\ clLast' = [clLast EXCEPT ![c] =
                     [method |-> m.method, route |-> m.route, timeout |-> m.timeout, requests |-> 1,
                      response |-> response, outcome |-> ClientReturn(m, response)]]

\* ------------------------------------------------------------ utils.Timer
\* Times are whole ticks of the clock; the None of an Optional[float], and of
\* a call that returns no number, is NoTime.
MaxTime == 4
NoTime == -1

TYPE_ERROR == "TypeError"
KEY_ERROR == "KeyError"

\* Timer.__init__
NewTimer == [start_time |-> NoTime, stop_time |-> NoTime, duration |-> 0]

\* Timer.start at time t
TimerStart(tm, t) == [tm EXCEPT !.start_time = t, !.stop_time = NoTime]

\* Timer.stop raises when self._start_time is None in the subtraction.
TimerStopRaises(tm) == tm.stop_time = NoTime /\ tm.start_time = NoTime

\* A stop that adds the interval again on every call.
TimerStopAlways(tm, t) ==
    IF tm.start_time = NoTime THEN [tm EXCEPT !.stop_time = t]
    ELSE [tm EXCEPT !.stop_time = t, !.duration = @ + (t - tm.start_time)]

\* Timer.stop at time t: the timer after the call (also when it raised,
\* self._stop_time being assigned before the subtraction).
TimerStop(tm, t) ==
    IF tm.stop_time # NoTime THEN tm
    ELSE IF tm.start_time = NoTime THEN [tm EXCEPT !.stop_time = t]
    ELSE [tm EXCEPT !.stop_time = t, !.duration = @ + (t - tm.start_time)]

\* Timer.duration at time t
TimerDuration(tm, t) ==
    IF tm.start_time # NoTime /\ tm.stop_time = NoTime
    THEN tm.duration + (t - tm.start_time)
    ELSE tm.duration

\* Timer.reset
TimerReset(tm) == [tm EXCEPT !.start_time = NoTime, !.stop_time = NoTime, !.duration = 0]

NoGhost == [running |-> FALSE, lastStart |-> NoTime, sum |-> 0, returned |-> NoTime]
NoTimerCall == [op |-> "none", raised |-> NONE, value |-> NoTime, prev |-> NoTime]

\* time passes
Tick ==
    /\ now < MaxTime
    /\ now' = now + 1

\* timer.start()
TmStart ==
    /\ timer' = TimerStart(timer, now)
    /\ tmGhost' = [tmGhost EXCEPT !.running = TRUE, !.lastStart = now]
    /\ tmLast' = [NoTimerCall EXCEPT !.op = "start"]
    /\ UNCHANGED now

\* timer.stop()
TmStop ==
    /\ timer' = TimerStop(timer, now)
    /\ tmGhost' = IF tmGhost.running
                  THEN [tmGhost EXCEPT !.running = FALSE, !.sum = @ + (now - tmGhost.lastStart)]
                  ELSE tmGhost
    /\ tmLast' = [NoTimerCall EXCEPT !.op = "stop",
                                     !.raised = IF TimerStopRaises(timer) THEN TYPE_ERROR ELSE NONE]
    /\ UNCHANGED now

\* timer.duration()
TmDuration ==
    /\ tmLast' = [NoTimerCall EXCEPT !.op = "duration", !.value = TimerDuration(timer, now),
                                     !.prev = tmGhost.returned]
    /\ tmGhost' = [tmGhost EXCEPT !.returned = TimerDuration(timer, now)]
    /\ UNCHANGED <<now, timer>>

\* timer.reset()
TmReset ==
    /\ timer' = TimerReset(timer)
    /\ tmGhost' = NoGhost
    /\ tmLast' = [NoTimerCall EXCEPT !.op = "reset"]
    /\ UNCHANGED now

\* -------------------------------------------------- utils.TimerCollection
TimerNames == {"Timer 1", "Timer 2"}

NoCollectionCall == [op |-> "none", name |-> NONE, raised |-> NONE, value |-> NoTime, names |-> {}]

\* TimerCollection.start(name)
TcStart(name) ==
    /\ timers' = [n \in DOMAIN timers \cup {name} |->
                     IF n = name
                     THEN TimerStart(IF name \in DOMAIN timers THEN timers[name] ELSE NewTimer, now)
                     ELSE timers[n]]
    /\ tcLast' = [NoCollectionCall EXCEPT !.op = "start", !.name = name, !.names = DOMAIN timers]

\* A stop that creates the timer it does not find.
TcStopCreating(name) ==
    /\ timers' = [n \in DOMAIN timers \cup {name} |->
                     IF n = name
                     THEN TimerStop(IF name \in DOMAIN timers THEN timers[name] ELSE NewTimer, now)
                     ELSE timers[n]]
    /\ tcLast' = [NoCollectionCall EXCEPT !.op = "stop", !.name = name, !.names = DOMAIN timers,
                                          !.raised = KEY_ERROR]

\* TimerCollection.stop(name)
TcStop(name) ==
    /\ IF name \notin DOMAIN timers
       THEN /\ tcLast' = [NoCollectionCall EXCEPT !.op = "stop", !.name = name,
                                                  !.names = DOMAIN timers, !.raised = KEY_ERROR]
            /\ UNCHANGED timers
       ELSE /\ timers' = [timers EXCEPT ![name] = TimerStop(@, now)]
            /\ tcLast' = [NoCollectionCall EXCEPT !.op = "stop", !.name = name,
                              !.names = DOMAIN timers,
                              !.raised = IF TimerStopRaises(timers[name]) THEN TYPE_ERROR ELSE NONE]

\* TimerCollection.duration(name)
TcDuration(name) ==
    /\ tcLast' = IF name \notin DOMAIN timers
                 THEN [NoCollectionCall EXCEPT !.op = "duration", !.name = name,
                                               !.names = DOMAIN timers, !.raised = KEY_ERROR]
                 ELSE [NoCollectionCall EXCEPT !.op = "duration", !.name = name,
                                               !.names = DOMAIN timers,
                                               !.value = TimerDuration(timers[name], now)]
    /\ UNCHANGED timers

\* TimerCollection.reset(name)
TcReset(name) ==
    /\ IF name \notin DOMAIN timers
       THEN /\ tcLast' = [NoCollectionCall EXCEPT !.op = "reset", !.name = name,
                                                  !.names = DOMAIN timers, !.raised = KEY_ERROR]
            /\ UNCHANGED timers
       ELSE /\ timers' = [timers EXCEPT ![name] = TimerReset(@)]
            /\ tcLast' = [NoCollectionCall EXCEPT !.op = "reset", !.name = name,
                                                  !.names = DOMAIN timers]

\* TimerCollection.reset_all()
TcResetAll ==
    /\ timers' = [n \in DOMAIN timers |-> TimerReset(timers[n])]
    /\ tcLast' = [NoCollectionCall EXCEPT !.op = "reset_all", !.names = DOMAIN timers]

\* ===================================================== specifications
InitBackend ==
    /\ bExperiments = {DefaultExperiment}
    /\ bRuns = <<>>
    /\ bVersions = <<>>

InitDeploy ==
    /\ dsUp = FALSE
    /\ dsModels = <<>>
    /\ loaded_models = <<>>
    /\ default_model = NONE
    /\ dsReq = NoRequest
    /\ dsResp = NoResponse
    /\ everLoaded = FALSE

\* Registry.__init__ has run against the fresh backend.
InitRegistry ==
    /\ models = <<>>
    /\ experiments = FetchExperimentsInfo({DefaultExperiment})
    /\ modelsGen = 0
    /\ experimentsGen = 0
    /\ calls = 0
    /\ hpc = [h \in Handlers |-> "idle"]
    /\ hcall = [h \in Handlers |-> NoCall]
    /\ hret = [h \in Handlers |-> NoReturn]

InitTraining ==
    /\ tsTask = [q \in Requests |-> [state |-> "none", multirun |-> FALSE]]
    /\ tsResp = [q \in Requests |-> ""]
    /\ tsLog = {}

InitDiscord ==
    /\ training_requests = <<>>
    /\ tickPc = "idle"
    /\ tickIdx = 1
    /\ tickExps = {}
    /\ tickCur = NONE
    /\ loopAlive = TRUE
    /\ notified = {}
    /\ tickOutstanding = {}
    /\ tickChecked = {}

InitClients ==
    clLast = [c \in Clients |-> NoClientCall]

InitGateway ==
    /\ gwLoadedModels = <<>>
    /\ gwDefaultModel = NONE
    /\ gwReq = [op |-> "none", payload |-> NoRequest.payload]
    /\ gwResp = NoResponse

InitThreads ==
    thr = [t \in Threads |-> NoThread]

InitTimers ==
    /\ now = 0
    /\ timer = NewTimer
    /\ tmGhost = NoGhost
    /\ tmLast = NoTimerCall
    /\ timers = <<>>
    /\ tcLast = NoCollectionCall

InitSplit ==
    /\ split = NoSplit
    /\ splitDone = [site \in SplitSites |-> NoReply]

Init ==
    /\ InitBackend /\ InitDeploy /\ InitRegistry /\ InitTraining /\ InitDiscord
    /\ InitClients /\ InitGateway
    /\ InitThreads
    /\ InitTimers
    /\ InitSplit

\* ---- the Deployment server and the training runs that fill the backend.
\* Neither the Deployment server nor the Registry's model and experiment
\* mappings read a run's status: the end of a run is a step of the training
\* specifications below only.
KnownKeys == {Key(n, v) : n \in Names, v \in {"1", "2"}}
LoadPayloads ==
    [model : Names \cup {NONE}, version : {"1", "2", NONE},
     run_id : RunIds \cup {NONE}, ok : {TRUE}]
ClassifyPayloads ==
    [model : KnownKeys \cup {NONE}, version : {NONE}, run_id : {NONE}, ok : BOOLEAN]

NextDeploy ==
    \/ TrainStartRun(NONE, "1") /\ UNCHANGED <<deployVars, registryVars, trainVars, discordVars, clientVars, gatewayVars, otherVars>>
    \/ \E i \in DOMAIN bRuns, name \in Names :
          TrainLogModel(i, name, 90) /\ UNCHANGED <<deployVars, registryVars, trainVars, discordVars, clientVars, gatewayVars, otherVars>>
    \/ DeployStart /\ UNCHANGED <<backendVars, registryVars, trainVars, discordVars, clientVars, gatewayVars, otherVars>>
    \/ \E payload \in LoadPayloads :
          DeployLoadModel(payload) /\ UNCHANGED <<backendVars, registryVars, trainVars, discordVars, clientVars, gatewayVars, otherVars>>
    \/ \E payload \in ClassifyPayloads :
          DeployClassifyId(payload) /\ UNCHANGED <<backendVars, registryVars, trainVars, discordVars, clientVars, gatewayVars, otherVars>>
    \/ \E payload \in ClassifyPayloads :
          DeployClassifyImage(payload) /\ UNCHANGED <<backendVars, registryVars, trainVars, discordVars, clientVars, gatewayVars, otherVars>>

SpecDeploy == Init /\ [][NextDeploy]_vars

\* ---- one handler at a time calling the Registry, and the backend changing
NextRegistry ==
    \/ \E e \in ExperimentIds : TrainStartRun(NONE, e) /\ UNCHANGED <<deployVars, registryVars, trainVars, discordVars, clientVars, gatewayVars, otherVars>>
    \/ \E i \in DOMAIN bRuns, acc \in {90, 95} :
          TrainLogModel(i, "mlp", acc) /\ UNCHANGED <<deployVars, registryVars, trainVars, discordVars, clientVars, gatewayVars, otherVars>>
    \/ CallRefresh("h1", "refresh", NONE) /\ UNCHANGED <<backendVars, deployVars, trainVars, discordVars, clientVars, gatewayVars, otherVars>>
    \/ \E e \in ExperimentIds :
          CallRefresh("h1", "best_model_for_experiment", e) /\ UNCHANGED <<backendVars, deployVars, trainVars, discordVars, clientVars, gatewayVars, otherVars>>
    \/ RefreshModels("h1") /\ UNCHANGED <<backendVars, deployVars, trainVars, discordVars, clientVars, gatewayVars, otherVars>>
    \/ RefreshModelsFails("h1") /\ UNCHANGED <<backendVars, deployVars, trainVars, discordVars, clientVars, gatewayVars, otherVars>>
    \/ RefreshExperiments("h1") /\ UNCHANGED <<backendVars, deployVars, trainVars, discordVars, clientVars, gatewayVars, otherVars>>
    \/ RefreshExperimentsFails("h1") /\ UNCHANGED <<backendVars, deployVars, trainVars, discordVars, clientVars, gatewayVars, otherVars>>
    \/ BestSelect("h1") /\ UNCHANGED <<backendVars, deployVars, trainVars, discordVars, clientVars, gatewayVars, otherVars>>

SpecRegistry == Init /\ [][NextRegistry]_vars

\* ---- handlers running concurrently (FastAPI runs `def` routes on threads)
NextConcurrent ==
    \/ TrainStartRun(NONE, "1") /\ UNCHANGED <<deployVars, registryVars, trainVars, discordVars, clientVars, gatewayVars, otherVars>>
    \/ \E i \in DOMAIN bRuns : TrainLogModel(i, "mlp", 90) /\ UNCHANGED <<deployVars, registryVars, trainVars, discordVars, clientVars, gatewayVars, otherVars>>
    \/ \E h \in Handlers : CallRefresh(h, "refresh", NONE) /\ UNCHANGED <<backendVars, deployVars, trainVars, discordVars, clientVars, gatewayVars, otherVars>>
    \/ \E h \in Handlers :
          CallRefresh(h, "best_model_for_experiment", "1") /\ UNCHANGED <<backendVars, deployVars, trainVars, discordVars, clientVars, gatewayVars, otherVars>>
    \/ \E h \in Handlers : RefreshModels(h) /\ UNCHANGED <<backendVars, deployVars, trainVars, discordVars, clientVars, gatewayVars, otherVars>>
    \/ \E h \in Handlers : RefreshModelsFails(h) /\ UNCHANGED <<backendVars, deployVars, trainVars, discordVars, clientVars, gatewayVars, otherVars>>
    \/ \E h \in Handlers : RefreshExperiments(h) /\ UNCHANGED <<backendVars, deployVars, trainVars, discordVars, clientVars, gatewayVars, otherVars>>
    \/ \E h \in Handlers : RefreshExperimentsFails(h) /\ UNCHANGED <<backendVars, deployVars, trainVars, discordVars, clientVars, gatewayVars, otherVars>>
    \/ \E h \in Handlers : BestSelect(h) /\ UNCHANGED <<backendVars, deployVars, trainVars, discordVars, clientVars, gatewayVars, otherVars>>

SpecConcurrent == Init /\ [][NextConcurrent]_vars

\* ---- training requests, their runs, and a handler using a Registry
NextTrain ==
    \/ \E q \in Requests, multirun \in BOOLEAN :
          /\ StartTrainingRun(q, multirun)
          /\ UNCHANGED <<backendVars, deployVars, registryVars, discordVars, clientVars, gatewayVars, otherVars>>
    \/ \E q \in Requests :
          TaskBegin(q) /\ UNCHANGED <<backendVars, deployVars, registryVars, discordVars, clientVars, gatewayVars, otherVars>>
    \/ \E q \in Requests :
          /\ MayStartRun(q)
          /\ TrainStartRun(q, "1")
          /\ UNCHANGED <<deployVars, registryVars, trainVars, discordVars, clientVars, gatewayVars, otherVars>>
    \/ \E i \in DOMAIN bRuns :
          /\ Alive(i)
          /\ TrainLogModel(i, "mlp", 90)
          /\ UNCHANGED <<deployVars, registryVars, trainVars, discordVars, clientVars, gatewayVars, otherVars>>
    \/ \E i \in DOMAIN bRuns :
          /\ Alive(i)
          /\ TrainEndRun(i)
          /\ UNCHANGED <<deployVars, registryVars, trainVars, discordVars, clientVars, gatewayVars, otherVars>>
    \/ \E i \in DOMAIN bRuns :
          /\ Alive(i)
          /\ TrainFailRun(i)
          /\ UNCHANGED <<deployVars, registryVars, trainVars, discordVars, clientVars, gatewayVars, otherVars>>
    \/ \E q \in Requests :
          TaskExitZero(q) /\ UNCHANGED <<backendVars, deployVars, registryVars, discordVars, clientVars, gatewayVars, otherVars>>
    \/ \E q \in Requests :
          TaskExitNonZero(q) /\ UNCHANGED <<backendVars, deployVars, registryVars, discordVars, clientVars, gatewayVars, otherVars>>
    \/ CallRefresh("h1", "refresh", NONE) /\ UNCHANGED <<backendVars, deployVars, trainVars, discordVars, clientVars, gatewayVars, otherVars>>
    \/ RefreshModels("h1") /\ UNCHANGED <<backendVars, deployVars, trainVars, discordVars, clientVars, gatewayVars, otherVars>>
    \/ RefreshExperiments("h1") /\ UNCHANGED <<backendVars, deployVars, trainVars, discordVars, clientVars, gatewayVars, otherVars>>
    \/ \E q \in Requests :
          /\ CallRunIdFromRequestId("h1", q)
          /\ UNCHANGED <<backendVars, deployVars, trainVars, discordVars, clientVars, gatewayVars, otherVars>>

SpecTrain == Init /\ [][NextTrain]_vars

\* ---- the Discord bot: train commands, their runs, and the polling loop
CheckJobs ==
    \/ CheckJobsStart /\ UNCHANGED <<backendVars, deployVars, registryVars, trainVars, clientVars, gatewayVars, otherVars>>
    \/ CheckJobsNext /\ UNCHANGED <<backendVars, deployVars, registryVars, trainVars, clientVars, gatewayVars, otherVars>>
    \/ CheckJobsReply /\ UNCHANGED <<backendVars, deployVars, registryVars, trainVars, clientVars, gatewayVars, otherVars>>

NextDiscord ==
    \/ \E q \in Requests, multirun \in BOOLEAN :
          /\ DiscordTrain(q, multirun)
          /\ UNCHANGED <<backendVars, deployVars, registryVars, clientVars, gatewayVars, otherVars>>
    \/ \E q \in Requests :
          TaskBegin(q) /\ UNCHANGED <<backendVars, deployVars, registryVars, discordVars, clientVars, gatewayVars, otherVars>>
    \/ \E q \in Requests :
          /\ MayStartRun(q)
          /\ TrainStartRun(q, "1")
          /\ UNCHANGED <<deployVars, registryVars, trainVars, discordVars, clientVars, gatewayVars, otherVars>>
    \/ \E i \in DOMAIN bRuns :
          /\ Alive(i)
          /\ TrainLogModel(i, "mlp", 90)
          /\ UNCHANGED <<deployVars, registryVars, trainVars, discordVars, clientVars, gatewayVars, otherVars>>
    \/ \E i \in DOMAIN bRuns :
          /\ Alive(i)
          /\ TrainEndRun(i)
          /\ UNCHANGED <<deployVars, registryVars, trainVars, discordVars, clientVars, gatewayVars, otherVars>>
    \/ \E i \in DOMAIN bRuns :
          /\ Alive(i)
          /\ TrainFailRun(i)
          /\ UNCHANGED <<deployVars, registryVars, trainVars, discordVars, clientVars, gatewayVars, otherVars>>
    \/ \E q \in Requests :
          TaskExitZero(q) /\ UNCHANGED <<backendVars, deployVars, registryVars, discordVars, clientVars, gatewayVars, otherVars>>
    \/ \E q \in Requests :
          TaskExitNonZero(q) /\ UNCHANGED <<backendVars, deployVars, registryVars, discordVars, clientVars, gatewayVars, otherVars>>
    \/ CheckJobsStart /\ UNCHANGED <<backendVars, deployVars, registryVars, trainVars, clientVars, gatewayVars, otherVars>>
    \/ CheckJobsNext /\ UNCHANGED <<backendVars, deployVars, registryVars, trainVars, clientVars, gatewayVars, otherVars>>
    \/ CheckJobsReply /\ UNCHANGED <<backendVars, deployVars, registryVars, trainVars, clientVars, gatewayVars, otherVars>>
    \/ CheckJobsReplyFails /\ UNCHANGED <<backendVars, deployVars, registryVars, trainVars, clientVars, gatewayVars, otherVars>>
    \/ CheckJobsReplyRetried /\ UNCHANGED <<backendVars, deployVars, registryVars, trainVars, clientVars, gatewayVars, otherVars>>

SpecDiscord == Init /\ [][NextDiscord]_vars

\* tasks.loop(seconds=15.0) calls check_training_jobs again and again while
\* the loop is alive, and a started call runs to its end.
SpecDiscordFair == SpecDiscord /\ WF_vars(CheckJobs)

\* ---- the Gateway's model-serving routes, beside a running Deployment server
GatewayLoadPayloads ==
    [model : {"mlp", NONE}, version : {"1", NONE}, run_id : {RunId(1), NONE}, ok : {TRUE}]
GatewayClassifyPayloads ==
    [model : {Key("mlp", "1"), NONE}, version : {NONE}, run_id : {NONE}, ok : BOOLEAN]

NextGateway ==
    \/ TrainStartRun(NONE, "1") /\ UNCHANGED <<deployVars, registryVars, trainVars, discordVars, clientVars, gatewayVars, otherVars>>
    \/ \E i \in DOMAIN bRuns :
          TrainLogModel(i, "mlp", 90) /\ UNCHANGED <<deployVars, registryVars, trainVars, discordVars, clientVars, gatewayVars, otherVars>>
    \/ DeployStart /\ UNCHANGED <<backendVars, registryVars, trainVars, discordVars, clientVars, gatewayVars, otherVars>>
    \/ CallRefresh("h1", "refresh", NONE) /\ UNCHANGED <<backendVars, deployVars, trainVars, discordVars, clientVars, gatewayVars, otherVars>>
    \/ RefreshModels("h1") /\ UNCHANGED <<backendVars, deployVars, trainVars, discordVars, clientVars, gatewayVars, otherVars>>
    \/ RefreshExperiments("h1") /\ UNCHANGED <<backendVars, deployVars, trainVars, discordVars, clientVars, gatewayVars, otherVars>>
    \/ \E payload \in GatewayLoadPayloads :
          GatewayLoadModel(payload) /\ UNCHANGED <<backendVars, registryVars, trainVars, discordVars, clientVars, otherVars>>
    \/ \E payload \in GatewayClassifyPayloads :
          GatewayClassifyId(payload) /\ UNCHANGED <<backendVars, registryVars, trainVars, discordVars, clientVars, otherVars>>
    \/ \E payload \in GatewayClassifyPayloads :
          GatewayClassifyImage(payload) /\ UNCHANGED <<backendVars, registryVars, trainVars, discordVars, clientVars, otherVars>>

SpecGateway == Init /\ [][NextGateway]_vars

\* ---- a handler using the Registry's lookups while experiments and models
\* appear in the backend
NextLookup ==
    \/ \E e \in ExperimentIds :
          TrainStartRun(NONE, e) /\ UNCHANGED <<deployVars, registryVars, trainVars, discordVars, clientVars, gatewayVars, otherVars>>
    \/ \E i \in DOMAIN bRuns :
          TrainLogModel(i, "mlp", 90) /\ UNCHANGED <<deployVars, registryVars, trainVars, discordVars, clientVars, gatewayVars, otherVars>>
    \/ CallRefresh("h1", "refresh", NONE) /\ UNCHANGED <<backendVars, deployVars, trainVars, discordVars, clientVars, gatewayVars, otherVars>>
    \/ RefreshModels("h1") /\ UNCHANGED <<backendVars, deployVars, trainVars, discordVars, clientVars, gatewayVars, otherVars>>
    \/ RefreshExperiments("h1") /\ UNCHANGED <<backendVars, deployVars, trainVars, discordVars, clientVars, gatewayVars, otherVars>>
    \/ BestSelect("h1") /\ UNCHANGED <<backendVars, deployVars, trainVars, discordVars, clientVars, gatewayVars, otherVars>>
    \/ \E experiment_name \in ExperimentNames :
          /\ CallBestModelForExperimentName("h1", experiment_name)
          /\ UNCHANGED <<backendVars, deployVars, trainVars, discordVars, clientVars, gatewayVars, otherVars>>
    \/ \E experiment_name \in ExperimentNames :
          /\ CallExperimentId("h1", experiment_name)
          /\ UNCHANGED <<backendVars, deployVars, trainVars, discordVars, clientVars, gatewayVars, otherVars>>
    \/ CallExperimentNames("h1") /\ UNCHANGED <<backendVars, deployVars, trainVars, discordVars, clientVars, gatewayVars, otherVars>>
    \/ CallExperimentIds("h1") /\ UNCHANGED <<backendVars, deployVars, trainVars, discordVars, clientVars, gatewayVars, otherVars>>
    \/ \E run_id \in RunIds :
          /\ CallModelNameAndVersion("h1", run_id)
          /\ UNCHANGED <<backendVars, deployVars, trainVars, discordVars, clientVars, gatewayVars, otherVars>>

SpecLookup == Init /\ [][NextLookup]_vars

\* ---- callers of the three connection clients
NextClient ==
    \/ \E m \in GatewayClientMethods : \E response \in ServerResponses("gateway", m.route) :
          /\ ClientCall("gateway", m, response)
          /\ UNCHANGED <<backendVars, deployVars, registryVars, trainVars, discordVars, gatewayVars, otherVars>>
    \/ \E m \in DeploymentClientMethods : \E response \in ServerResponses("deployment", m.route) :
          /\ ClientCall("deployment", m, response)
          /\ UNCHANGED <<backendVars, deployVars, registryVars, trainVars, discordVars, gatewayVars, otherVars>>
    \/ \E m \in TrainingClientMethods : \E response \in ServerResponses("training", m.route) :
          /\ ClientCall("training", m, response)
          /\ UNCHANGED <<backendVars, deployVars, registryVars, trainVars, discordVars, gatewayVars, otherVars>>

SpecClient == Init /\ [][NextClient]_vars

\* ---- load-model and classify requests running on the threads of one
\* Deployment server process
RaceKeys == {Key("mlp", "1"), Key("mlp", "2")}
ServerVars == <<backendVars, registryVars, trainVars, discordVars, clientVars, gatewayVars, utilVars,
                splitVars>>

NextRace ==
    \/ TrainStartRun(NONE, "1") /\ UNCHANGED <<deployVars, registryVars, trainVars, discordVars, clientVars, gatewayVars, otherVars>>
    \/ \E i \in DOMAIN bRuns :
          TrainLogModel(i, "mlp", 90) /\ UNCHANGED <<deployVars, registryVars, trainVars, discordVars, clientVars, gatewayVars, otherVars>>
    \/ DeployStart /\ UNCHANGED <<backendVars, registryVars, trainVars, discordVars, clientVars, gatewayVars, otherVars>>
    \/ \E t \in Loaders, key \in RaceKeys : LoadBegin(t, key) /\ UNCHANGED ServerVars
    \/ \E t \in Loaders : LoadFetch(t) /\ UNCHANGED ServerVars
    \/ \E t \in Loaders : LoadStore(t) /\ UNCHANGED ServerVars
    \/ \E t \in Loaders : LoadSetDefault(t) /\ UNCHANGED ServerVars
    \/ \E t \in Classifiers, op \in {"classify-id", "classify-image"}, model_name \in RaceKeys \cup {NONE} :
          ClassifyBegin(t, op, model_name) /\ UNCHANGED ServerVars
    \/ \E t \in Classifiers : ClassifyNamed(t) /\ UNCHANGED ServerVars
    \/ \E t \in Classifiers : ClassifyReadDefault(t) /\ UNCHANGED ServerVars
    \/ \E t \in Classifiers : ClassifyLookup(t) /\ UNCHANGED ServerVars
    \/ \E t \in Classifiers : ClassifyFinish(t) /\ UNCHANGED ServerVars

SpecRace == Init /\ [][NextRace]_vars

\* ---- a Timer used while time passes
serviceVars == <<backendVars, deployVars, registryVars, trainVars, discordVars, clientVars, gatewayVars>>

NextTimer ==
    \/ Tick /\ UNCHANGED <<timer, tmGhost, tmLast>> /\ UNCHANGED <<serviceVars, raceVars, collectionVars, splitVars>>
    \/ TmStart /\ UNCHANGED <<serviceVars, raceVars, collectionVars, splitVars>>
    \/ TmStop /\ UNCHANGED <<serviceVars, raceVars, collectionVars, splitVars>>
    \/ TmDuration /\ UNCHANGED <<serviceVars, raceVars, collectionVars, splitVars>>
    \/ TmReset /\ UNCHANGED <<serviceVars, raceVars, collectionVars, splitVars>>

SpecTimer == Init /\ [][NextTimer]_vars

\* ---- a TimerCollection used while time passes
NextTimerCollection ==
    \/ Tick /\ UNCHANGED <<timer, tmGhost, tmLast>> /\ UNCHANGED <<serviceVars, raceVars, collectionVars, splitVars>>
    \/ \E name \in TimerNames :
          TcStart(name) /\ UNCHANGED <<serviceVars, raceVars, timerVars, splitVars>>
    \/ \E name \in TimerNames :
          TcStop(name) /\ UNCHANGED <<serviceVars, raceVars, timerVars, splitVars>>
    \/ \E name \in TimerNames :
          TcDuration(name) /\ UNCHANGED <<serviceVars, raceVars, timerVars, splitVars>>
    \/ \E name \in TimerNames :
          TcReset(name) /\ UNCHANGED <<serviceVars, raceVars, timerVars, splitVars>>
    \/ TcResetAll /\ UNCHANGED <<serviceVars, raceVars, timerVars, splitVars>>

SpecTimerCollection == Init /\ [][NextTimerCollection]_vars

\* ---- the bot sending replies of any length from its three sites
NextSplit ==
    \/ \E site \in SplitSites : \E n \in SiteLengths(site) :
          SplitBegin(site, n) /\ UNCHANGED <<serviceVars, raceVars, utilVars>>
    \/ SplitSend /\ UNCHANGED <<serviceVars, raceVars, utilVars>>
    \/ SplitSendFails /\ UNCHANGED <<serviceVars, raceVars, utilVars>>

SpecSplit == Init /\ [][NextSplit]_vars

\* ============================================================== claims
ClassifyOps == {"classify-id", "classify-image"}

\* The key a load-model payload names in the backend the request met.
BackendKey(req) ==
    IF req.payload.run_id # NONE
    THEN LET v == req.versions[CHOOSE i \in DOMAIN req.versions :
                                   req.versions[i].run_id = req.payload.run_id]
         IN Key(v.name, v.version)
    ELSE Key(req.payload.model, req.payload.version)

\* The payload names a run_id, or else a (model, version) pair, that is
\* registered in the backend at the time of the request.
NamesRegistered(req) ==
    IF req.payload.run_id # NONE
    THEN HasVersion(req.versions, req.payload.run_id)
    ELSE /\ req.payload.model # NONE
         /\ req.payload.version # NONE
         /\ Registered(req.versions, Key(req.payload.model, req.payload.version))

\* C1: every load-model request naming a (model, version) pair or a run_id
\* registered in the tracking backend at the time of the request succeeds,
\* leaves the key "name/version" in the cache and the default pointer equal
\* to it; a later classify request without a model argument is served by
\* the model the default pointer names.
C1_LoadRegisteredSucceeds ==
    /\ (dsReq.op = "load-model" /\ NamesRegistered(dsReq)) =>
            /\ dsResp.status = 200
            /\ BackendKey(dsReq) \in DOMAIN loaded_models
            /\ default_model = BackendKey(dsReq)
    /\ (dsReq.op \in ClassifyOps /\ dsResp.status = 200 /\ dsReq.payload.model = NONE) =>
            /\ default_model \in DOMAIN loaded_models
            /\ dsResp.servedBy = loaded_models[default_model]

\* C2: while no load-model request has succeeded, every classify-id and
\* classify-image request, naming a model or not, fails with the
\* no-model-loaded error and returns no prediction, and the cache and the
\* default pointer stay empty.
C2_NoModelLoaded ==
    ~everLoaded =>
        /\ DOMAIN loaded_models = {}
        /\ default_model = NONE
        /\ dsReq.op \in ClassifyOps =>
                /\ dsResp.status = 500
                /\ dsResp.detail = NO_MODEL
                /\ dsResp.servedBy = NONE
                /\ dsResp.prediction = NONE

\* A classify request naming a registered model arrives, with a payload
\* that cannot be processed further, before any load-model has succeeded.
C2_Witness ==
    /\ ~everLoaded
    /\ dsReq.op = "classify-image"
    /\ dsReq.payload.model # NONE
    /\ Registered(bVersions, dsReq.payload.model)
    /\ ~dsReq.payload.ok
    /\ dsResp.detail = NO_MODEL

BestReturned(h) ==
    hcall[h].op = "best_model_for_experiment" /\ hret[h].status = "returned"

Matching(ms, e) == {i \in DOMAIN ms : ms[i].experiment_id = e}

\* C3: best_model_for_experiment(e) returns no result when the refreshed
\* snapshot holds no model, and whenever a model with experiment_id = e
\* exists it returns a record of experiment e with the largest test accuracy
\* among the records of e.
C3_BestOfEveryExperiment ==
    \A h \in Handlers : BestReturned(h) =>
        LET ms == models
            e == hcall[h].arg
            r == hret[h].value
        IN /\ Len(ms) = 0 => r = <<>>
           /\ Matching(ms, e) # {} =>
                  /\ r # <<>>
                  /\ r[1].experiment_id = e
                  /\ \A i \in Matching(ms, e) : r[1].test_acc >= ms[i].test_acc

\* C3 restricted to experiments of the snapshot (see C20): best_model_for_experiment(e) returns no result when the
\* refreshed snapshot holds no model, and whenever a model with
\* experiment_id = e exists and e is a key of the refreshed experiment
\* mapping it returns a record of experiment e with the largest test
\* accuracy among the records of e.
C3_BestOfKnownExperiment ==
    \A h \in Handlers : BestReturned(h) =>
        LET ms == models
            e == hcall[h].arg
            r == hret[h].value
        IN /\ Len(ms) = 0 => r = <<>>
           /\ (Matching(ms, e) # {} /\ e \in DOMAIN experiments) =>
                  /\ r # <<>>
                  /\ r[1].experiment_id = e
                  /\ \A i \in Matching(ms, e) : r[1].test_acc >= ms[i].test_acc

\* Two records of experiment e, the better one second: it is the one returned
\* (the scenario a: 0.90, b: 0.95 of the specification).
C3_Witness ==
    /\ BestReturned("h1")
    /\ Len(models) = 2
    /\ \A i \in {1, 2} : models[i].experiment_id = hcall["h1"].arg
    /\ models[1].test_acc = 90
    /\ models[2].test_acc = 95
    /\ hret["h1"].value = <<models[2]>>

\* C4: a record returned by best_model_for_experiment(e) has
\* experiment_id = e, for every snapshot and every e.
C4_ReturnsOnlyRequestedExperiment ==
    \A h \in Handlers : BestReturned(h) =>
        (hret[h].value # <<>> => hret[h].value[1].experiment_id = hcall[h].arg)

RefreshFailed(h) ==
    /\ hcall[h].op \in {"refresh", "best_model_for_experiment"}
    /\ hret[h].status = "BackendUnavailable"

\* C5: after a refresh() that failed because the backend could not be
\* reached, while fetching the models or the experiments, both mappings are
\* what they were before the call.
C5_FailedRefreshKeepsSnapshot ==
    \A h \in Handlers : RefreshFailed(h) =>
        /\ models = hcall[h].models
        /\ experiments = hcall[h].experiments

\* C6: a handler that reads the registry never observes the model mapping
\* of one refresh() together with the experiment mapping of another.
C6_ReadersSeeOneGeneration ==
    \A h \in Handlers : BestReturned(h) =>
        hret[h].modelsGen = hret[h].experimentsGen

RunIdReturned(h) ==
    hcall[h].op = "run_id_from_request_id" /\ hret[h].status = "returned"

\* The runs of the known experiments that carry the tag request_id = q.
Tagged(runs, known, q) ==
    {i \in DOMAIN runs : runs[i].request_id = q /\ runs[i].experiment_id \in known}

\* C7: run_id_from_request_id(q) returns a run_id only of a run tagged
\* request_id = q with status FINISHED, and returns not-found both when no
\* run of the known experiments carries the tag and when the tagged runs are
\* not finished.
C7_RunIdOnlyWhenFinished ==
    \A h \in Handlers : RunIdReturned(h) =>
        LET runs == hcall[h].runs
            q == hcall[h].arg
            r == hret[h].value
            tagged == Tagged(runs, DOMAIN hcall[h].experiments, q)
        IN /\ r # NONE => \E i \in tagged : runs[i].run_id = r /\ runs[i].status = "FINISHED"
           /\ (\A i \in tagged : runs[i].status # "FINISHED") => r = NONE

\* Not-found is returned for a request whose tagged run is still RUNNING.
C7_Witness ==
    /\ RunIdReturned("h1")
    /\ hret["h1"].value = NONE
    /\ \E i \in Tagged(hcall["h1"].runs, DOMAIN hcall["h1"].experiments, hcall["h1"].arg) :
           hcall["h1"].runs[i].status = "RUNNING"

Started(q) == tsTask[q].state # "none"

\* C8: start_training_run answers with the acknowledgement as soon as the
\* task is queued, before the subprocess has finished; the acknowledgement is
\* the same after an exit with status zero and after a non-zero one; and a
\* non-zero exit is logged and raised in the background task, and only then.
C8_FireAndForget ==
    \A q \in Requests :
        /\ Started(q) => tsResp[q] = ACK
        /\ q \in tsLog <=> tsTask[q].state = "failed"

\* A subprocess exited non-zero after its acknowledgement was returned.
C8_Witness ==
    \E q \in Requests :
        /\ tsTask[q].state = "failed"
        /\ tsResp[q] = ACK
        /\ q \in tsLog

\* C9: once start_training_run(q) was called, run_id_from_request_id(q)
\* returns not-found as long as no run tagged request_id = q is FINISHED, and
\* the run_id of such a run from then on.
C9_NotFoundUntilFinishedThenRunId ==
    \A h \in Handlers : \A q \in Requests :
        (RunIdReturned(h) /\ hcall[h].arg = q /\ Started(q)) =>
            LET runs == hcall[h].runs
                finished == {i \in DOMAIN runs : /\ runs[i].request_id = q
                                                 /\ runs[i].status = "FINISHED"}
            IN IF finished = {} THEN hret[h].value = NONE
               ELSE \E i \in finished : hret[h].value = runs[i].run_id

InList(q) == q \in Range(training_requests)

Exited(q) == tsTask[q].state \in {"done", "failed"}

HasFinishedRun(q) == \E i \in RunsOf(q) : bRuns[i].status = "FINISHED"

\* C10: with polling ticks that keep occurring, every request in
\* training_requests that has a FINISHED run tagged with its request_id is
\* eventually removed from the list.  Stated for requests whose subprocess
\* has exited, so that no later run can change what a tick observes, and for
\* as long as the polling loop is scheduled.
C10_FinishedEventuallyRemoved ==
    \A q \in Requests :
        [](InList(q) /\ Exited(q) /\ HasFinishedRun(q) => <>(~InList(q) \/ ~loopAlive))

\* C11: a tick of check_training_jobs that has run to its end has evaluated
\* run_id_from_request_id for every request that was in training_requests
\* when the tick started, also when it removed finished requests.
C11_TickChecksEveryOutstanding ==
    (loopAlive /\ tickPc = "idle") => tickOutstanding \subseteq tickChecked

Called(c) == clLast[c].method # NONE

\* C12: whenever the server answered a connection-client method with a
\* status code other than 200, the method raised an error carrying that
\* status code and the raw response body.
C12_Non200RaisesWithStatusAndBody ==
    \A c \in Clients :
        (Called(c) /\ clLast[c].response.status_code # 200) =>
            /\ clLast[c].outcome.raised = "HTTPException"
            /\ clLast[c].outcome.status_code = clLast[c].response.status_code
            /\ clLast[c].outcome.detail = clLast[c].response.content

TrainingSubmission == {"train", "start_training_run"}

\* C13: every connection-client call makes exactly one request; its timeout
\* is 60 seconds, and 86400 seconds for the training submissions train and
\* start_training_run.
C13_OneRequestFixedTimeout ==
    \A c \in Clients :
        Called(c) =>
            /\ clLast[c].requests = 1
            /\ clLast[c].timeout = IF clLast[c].method \in TrainingSubmission THEN 86400 ELSE 60

\* C15: no call of a Gateway connection-client method is answered with 404
\* because the Gateway server does not serve the route it requests.
C15_GatewayServesEveryClientRoute ==
    Called("gateway") =>
        /\ clLast["gateway"].route \in GatewayRoutes
        /\ clLast["gateway"].response.status_code # 404

Malformed(payload, snapshot) ==
    IF payload.run_id = NONE
    THEN payload.model = NONE \/ payload.version = NONE
    ELSE \A i \in DOMAIN snapshot : snapshot[i].run_id # payload.run_id

\* C16: a step that leaves a malformed load-model request as the last one
\* handled leaves it answered with status 400 and a descriptive message, and
\* leaves the cache and the default pointer as they were.  (The loader is
\* called exactly on the paths answered 200 or 500.)
C16_MalformedLoadIs400 ==
    [][(dsReq'.op = "load-model" /\ Malformed(dsReq'.payload, dsModels')) =>
           /\ dsResp'.status = 400
           /\ dsResp'.detail \in {MUST_SPECIFY, "No model found with run_id"}
           /\ loaded_models' = loaded_models
           /\ default_model' = default_model]_vars

\* An empty payload, and a run_id unknown to the snapshot, were each refused
\* with 400 while a model was loaded.
C16_Witness ==
    /\ everLoaded
    /\ dsReq.op = "load-model"
    /\ dsResp.status = 400
    /\ \/ dsReq.payload = [model |-> NONE, version |-> NONE, run_id |-> NONE, ok |-> TRUE]
       \/ dsReq.payload.run_id # NONE

\* C17: a best-model-for-experiment request naming an experiment that the
\* tracking backend does not know is answered with the no-result value, not
\* with an error.
C17_UnknownExperimentNameGivesNull ==
    \A h \in Handlers :
        (/\ hcall[h].op = "best_model_for_experiment_name"
         /\ hpc[h] = "idle"
         /\ GetExperimentByName(bExperiments, hcall[h].name) = NONE) =>
            /\ hret[h].status = "returned"
            /\ hret[h].value = <<>>

LookupOps == {"experiment_id", "experiment_names", "experiment_ids"}

\* The keys of a snapshot's experiment mapping that carry the name.
SnapshotIds(exps, experiment_name) ==
    {e \in DOMAIN exps : exps[e].name = experiment_name}

\* C18: experiment_id(name), experiment_names and experiment_ids answer from
\* the snapshot alone and leave it unchanged: experiment_id returns the key
\* the snapshot holds for the name and no id when it holds none, and the
\* other two return the names and the keys of the snapshot's mapping.
C18_LookupsArePure ==
    \A h \in Handlers :
        hcall[h].op \in LookupOps =>
            /\ models = hcall[h].models
            /\ experiments = hcall[h].experiments
            /\ hcall[h].op = "experiment_names" =>
                   hret[h].value = {hcall[h].experiments[e].name : e \in DOMAIN hcall[h].experiments}
            /\ hcall[h].op = "experiment_ids" =>
                   hret[h].value = DOMAIN hcall[h].experiments
            /\ hcall[h].op = "experiment_id" =>
                   IF SnapshotIds(hcall[h].experiments, hcall[h].name) = {}
                   THEN hret[h].status # "returned"
                   ELSE /\ hret[h].status = "returned"
                        /\ hret[h].value \in SnapshotIds(hcall[h].experiments, hcall[h].name)

\* C19: model_name_and_version(run_id) returns "name/version" of the record
\* the snapshot holds under run_id, raises ValueError when the snapshot holds
\* none, whatever the backend holds, and leaves the snapshot unchanged.
C19_NameAndVersionFromSnapshot ==
    \A h \in Handlers :
        hcall[h].op = "model_name_and_version" =>
            LET ms == hcall[h].models
                held == {i \in DOMAIN ms : ms[i].run_id = hcall[h].arg}
            IN /\ models = ms
               /\ experiments = hcall[h].experiments
               /\ IF held = {}
                  THEN hret[h].status = VALUE_ERROR
                  ELSE /\ hret[h].status = "returned"
                       /\ \E i \in held : hret[h].value = ms[i].name \o "/" \o ms[i].version

\* The lookup of a run_id that the backend has registered since the last
\* refresh fails with ValueError, and the lookup of one in the snapshot
\* succeeds.
C19_Witness ==
    /\ hcall["h1"].op = "model_name_and_version"
    /\ \/ /\ hret["h1"].status = VALUE_ERROR
          /\ HasVersion(bVersions, hcall["h1"].arg)
       \/ /\ hret["h1"].status = "returned"
          /\ hret["h1"].value = "mlp/2"

RefreshReturned(h) ==
    hcall[h].op = "refresh" /\ hret[h].status = "returned"

\* C20: in the snapshot a completed refresh() leaves, the experiment_id of
\* every model record is a key of the experiment mapping.
C20_ModelsReferenceSnapshotExperiments ==
    \A h \in Handlers :
        RefreshReturned(h) =>
            \A i \in DOMAIN models : models[i].experiment_id \in DOMAIN experiments

LoadSucceeded(resp) == resp.op = "load-model" /\ resp.status = 200

\* C22: the loaded-model cache has no unload transition: every request
\* leaves every cache key in place, the default pointer is unset exactly
\* while no load-model has succeeded, a successful load-model leaves the
\* default pointer equal to its key, every other request leaves the pointer
\* alone, and a set pointer names a key of the cache.
C22_CacheOnlyGrows ==
    [][/\ DOMAIN loaded_models \subseteq DOMAIN loaded_models'
       /\ \A k \in DOMAIN loaded_models : k # dsResp'.key => loaded_models'[k] = loaded_models[k]
       /\ (default_model' = NONE) <=> ~everLoaded'
       /\ default_model' # NONE => default_model' \in DOMAIN loaded_models'
       /\ IF LoadSucceeded(dsResp') /\ dsReq' # dsReq
          THEN default_model' = dsResp'.key
          ELSE dsReq' # dsReq => default_model' = default_model]_vars

\* Two models are in the cache, and a classify request followed the last
\* successful load-model.
C22_Witness ==
    /\ Cardinality(DOMAIN loaded_models) >= 2
    /\ default_model \in DOMAIN loaded_models
    /\ dsReq.op \in ClassifyOps
    /\ dsResp.status = 200

\* C27: a classify request naming a model key that is not in the cache is
\* not rejected for that: with a default pointer set it is served by the
\* default model (when its input can be processed), and it fails with the
\* no-model-loaded error only when no default is set.
C27_UnknownNamedModelFallsBack ==
    (/\ dsReq.op \in ClassifyOps
     /\ dsReq.payload.model # NONE
     /\ dsReq.payload.model \notin DOMAIN loaded_models) =>
        IF default_model # NONE
        THEN /\ dsResp.detail # NO_MODEL
             /\ dsReq.payload.ok => /\ dsResp.status = 200
                                    /\ dsResp.servedBy = loaded_models[default_model]
        ELSE /\ dsResp.status = 500
             /\ dsResp.detail = NO_MODEL

\* A classify request names a key that is not in the cache while another
\* model is the default, and is served by that model.
C27_Witness ==
    /\ dsReq.op \in ClassifyOps
    /\ dsReq.payload.model # NONE
    /\ dsReq.payload.model \notin DOMAIN loaded_models
    /\ default_model # NONE
    /\ dsResp.status = 200
    /\ dsResp.servedBy = loaded_models[default_model]

\* The last request of thread t was a classify request without a model name
\* that started after a load-model had returned, and it has been answered.
ClassifiedAfterLoad(t) ==
    /\ thr[t].pc = "idle"
    /\ thr[t].op \in ClassifyOps
    /\ thr[t].key = NONE
    /\ thr[t].afterLoad

\* C21: in every interleaving of load-model and classify requests on one
\* server process, a classify request without a model name that starts after
\* a load-model has completed does not fail with the no-model-loaded error
\* and is served by a model whose key was the default pointer at some
\* instant during the request.
C21_RaceOnlyPicksTheModel ==
    \A t \in Threads :
        ClassifiedAfterLoad(t) =>
            /\ thr[t].resp.status = 200
            /\ \E k \in thr[t].during : k # NONE /\ thr[t].resp.servedBy = ModelUri(k)

\* A classify request without a model name ran while a load-model changed
\* the default pointer under it.
C21_Witness ==
    \E t \in Threads :
        /\ ClassifiedAfterLoad(t)
        /\ Cardinality(thr[t].during) >= 2
        /\ thr[t].resp.status = 200
        /\ thr[t].resp.servedBy # ModelUri(default_model)

\* C23: the duration() of a stopped Timer equals the sum of the lengths of
\* the start-to-stop intervals completed since the last reset: time passing
\* while it is stopped and a stop() on a stopped timer add nothing, a later
\* start/stop pair adds its interval, and reset() sets the duration to 0 and
\* clears the start and stop times.
C23_DurationIsSumOfIntervals ==
    /\ ~tmGhost.running => TimerDuration(timer, now) = tmGhost.sum
    /\ (tmLast.op = "duration" /\ ~tmGhost.running) => tmLast.value = tmGhost.sum
    /\ tmLast.op = "reset" => /\ timer.start_time = NoTime
                              /\ timer.stop_time = NoTime
                              /\ TimerDuration(timer, now) = 0

\* A stopped timer that has run twice since its reset, read after more time
\* has passed.
C23_Witness ==
    /\ tmLast.op = "duration"
    /\ ~tmGhost.running
    /\ timer.stop_time # NoTime
    /\ timer.stop_time < now
    /\ tmGhost.sum >= 2
    /\ tmGhost.sum > timer.stop_time - timer.start_time

\* C30: between two resets the value returned by duration() never
\* decreases, whatever start, stop and duration calls are made, a start()
\* of a running timer included.
C30_DurationNeverDecreases ==
    (tmLast.op = "duration" /\ tmLast.prev # NoTime) => tmLast.value >= tmLast.prev

\* C24: stop, duration and reset with a name never started raise KeyError
\* and create no timer, start with a new name creates it, no call removes a
\* name, and reset_all leaves every name with duration 0.
C24_CollectionNames ==
    /\ tcLast.names \subseteq DOMAIN timers
    /\ (tcLast.op \in {"stop", "duration", "reset"} /\ tcLast.name \notin tcLast.names) =>
            /\ tcLast.raised = KEY_ERROR
            /\ DOMAIN timers = tcLast.names
    /\ tcLast.op = "start" => DOMAIN timers = tcLast.names \cup {tcLast.name}
    /\ tcLast.op = "reset_all" =>
            /\ DOMAIN timers = tcLast.names
            /\ \A n \in DOMAIN timers : TimerDuration(timers[n], now) = 0

\* reset_all was called on a collection of two timers after time had passed.
C24_Witness ==
    /\ tcLast.op = "reset_all"
    /\ Cardinality(DOMAIN timers) = 2
    /\ now >= 2

\* The records of experiment e with the largest test accuracy among them.
Tied(ms, e) ==
    {i \in Matching(ms, e) : \A j \in Matching(ms, e) : ms[i].test_acc >= ms[j].test_acc}

\* C25: when several models of the requested experiment share the maximum
\* test accuracy, best_model_for_experiment returns the one that comes first
\* in the snapshot's insertion order (the order in which the refresh fetched
\* the registered models and their versions).
C25_TiesFirstInInsertionOrder ==
    \A h \in Handlers : BestReturned(h) =>
        LET ms == models
            e == hcall[h].arg
            r == hret[h].value
        IN Cardinality(Tied(ms, e)) >= 2 =>
               r = <<ms[CHOOSE i \in Tied(ms, e) : \A j \in Tied(ms, e) : i <= j]>>

ChunkLen(c) == IF c[2] >= c[1] THEN c[2] - c[1] + 1 ELSE 0

\* The chunks, put one after the other, are the text of length n.
Concatenates(chunks, n) ==
    /\ Len(chunks) >= 1
    /\ chunks[1][1] = 1
    /\ \A i \in 1..(Len(chunks) - 1) : chunks[i + 1][1] = chunks[i][2] + 1
    /\ chunks[Len(chunks)][2] = n

\* C26: for every reply text of length n the bot sends exactly
\* max(ceil(n / 2000), 1) chunks in order, each of at most 2000 characters,
\* whose concatenation in sending order is the text; the three sites send
\* the same chunks for the same text.
C26_ChunksRebuildTheText ==
    /\ \A site \in SplitSites :
          LET r == splitDone[site]
          IN r.n >= 0 =>
                /\ Len(r.chunks) = (IF r.n = 0 THEN 1 ELSE (r.n + 1999) \div 2000)
                /\ \A i \in DOMAIN r.chunks : ChunkLen(r.chunks[i]) <= 2000
                /\ Concatenates(r.chunks, r.n)
    /\ \A s1, s2 \in SplitSites :
          splitDone[s1].n = splitDone[s2].n => splitDone[s1].chunks = splitDone[s2].chunks

\* The three sites have each sent the same text of two full chunks and one
\* character.
C26_Witness ==
    /\ \A site \in SplitSites : splitDone[site].n = 2 * max_len + 1
    /\ Len(splitDone["chat"].chunks) = 3

\* The request was submitted, is not in training_requests, was not
\* announced and is not being announced.
Dropped(q) == Started(q) /\ ~InList(q) /\ q \notin notified /\ tickCur # q

\* C28: a request found finished is removed from training_requests before
\* its completion reply is built and sent; when the reply fails after the
\* removal the request is no longer outstanding, and no later step puts it
\* back or announces it.
C28_RemovedBeforeReply ==
    [][/\ tickPc' = "reply" => tickCur' \notin Range(training_requests')
       /\ \A q \in Requests :
             /\ (tickPc = "reply" /\ tickCur = q /\ tickCur' # q /\ q \notin notified') => Dropped(q)'
             /\ Dropped(q) => Dropped(q)']_vars

\* The reply for a finished request failed, the loop went on, and a later
\* tick has run to its end without the request.
C28_Witness ==
    \E q \in Requests :
        /\ Dropped(q)
        /\ HasFinishedRun(q)
        /\ loopAlive
        /\ tickPc = "loop"
        /\ tickOutstanding # {}

\* The first run of the scan that carries the tag q.
FirstTagged(runs, experiment_ids, q) ==
    CHOOSE i \in Tagged(runs, experiment_ids, q) :
        \A j \in Tagged(runs, experiment_ids, q) : i <= j

\* C29: the result of run_id_from_request_id(q) is decided by the first run
\* of the scan whose request_id tag is q: its run_id when it is FINISHED,
\* not-found when it is not, whatever later runs carry the same tag.
C29_FirstTaggedRunDecides ==
    \A h \in Handlers : RunIdReturned(h) =>
        LET runs == hcall[h].runs
            exps == DOMAIN hcall[h].experiments
            q == hcall[h].arg
        IN Tagged(runs, exps, q) # {} =>
               hret[h].value = (IF runs[FirstTagged(runs, exps, q)].status = "FINISHED"
                                THEN runs[FirstTagged(runs, exps, q)].run_id
                                ELSE NONE)

\* One request launched two runs: the newer one, first in the scan, is not
\* FINISHED, the older one is, and the lookup returns not-found.
C29_Witness ==
    /\ RunIdReturned("h1")
    /\ hret["h1"].value = NONE
    /\ LET runs == hcall["h1"].runs
           exps == DOMAIN hcall["h1"].experiments
           q == hcall["h1"].arg
       IN /\ Cardinality(Tagged(runs, exps, q)) >= 2
          /\ runs[FirstTagged(runs, exps, q)].status # "FINISHED"
          /\ \E i \in Tagged(runs, exps, q) : runs[i].status = "FINISHED"

====
